---------------------------- MODULE Spec2Model ----------------------------
(***************************************************************************)
(* A model of the source-to-image builder: src/sti/cmd/builder.py (sti)    *)
(* and its predecessor src/wharfie/cmd/builder.py (wharfie).               *)
(*                                                                         *)
(* One run of the command-line program is a sequential walk through the    *)
(* code.  A state holds the parsed arguments, the position in the code     *)
(* (pc), the call/handler stack, the exception in flight, the locals, the  *)
(* container runtime's images and containers, and the local file system.   *)
(* Every call to the container runtime is one step; the runtime's answer   *)
(* (a result, or docker.APIError) is the step's input.                     *)
(***************************************************************************)
EXTENDS Naturals, Sequences, FiniteSets, TLC

(***************************************************************************)
(* Values                                                                  *)
(***************************************************************************)
\* Python's None where a string (an image reference, an image id) is expected.
NoneRef == "<None>"
\* Python's None where a container id is expected; the runtime's ids are 1, 2, ...
NoId == 0
\* Python's None where a directory path is expected (a path is a tuple of names).
NoDir == <<>>
\* The exit status is <<>> while the process runs and <<n>> once it has ended.
Running == <<>>

\* Python truthiness of an optional string: None and "" are false.
Truthy(s) == s \notin {NoneRef, ""}

\* "%s" % x
Str(s) == IF s = NoneRef THEN "None" ELSE s

\* app_build_tag = "%s-build" % app_image
AppBuildTag(app_image) == Str(app_image) \o "-build"

\* os.path.join(dir, name)
Join(dir, name) == Append(dir, name)

\* path p is dir or lies below it
IsUnder(p, dir) == Len(p) >= Len(dir) /\ SubSeq(p, 1, Len(dir)) = dir

\* shutil.rmtree(dir): dir and everything below it are gone
RmTree(files, dir) == {p \in files : ~IsUnder(p, dir)}

\* tempfile.mkdtemp(): a fresh directory
TempDir == <<"tmp">>
\* the directory named by --dir
WorkDir == <<"wd">>

\* The lifecycle scripts an image may hold.
Prepare == "/usr/bin/prepare"
Run == "/usr/bin/run"
SaveArtifacts == "/usr/bin/save-artifacts"
Scripts == {Prepare, Run, SaveArtifacts}

(***************************************************************************)
(* Bounds of the model                                                     *)
(***************************************************************************)
\* Longest list of -e ENV_NAME=VALUE options of an invocation.
MaxEnv == 2

\* The -e options tried: characters are one-character strings.
EnvEntries ==
    { <<"A", "=", "1">>, <<"B", "=", "2">>,
      <<"K", "=", "a", "=", "b">>, <<"N", "O", "V", "A", "L">> }

RECURSIVE SeqsUpTo(_, _)
SeqsUpTo(S, n) ==
    IF n = 0 THEN {<<>>}
    ELSE LET shorter == SeqsUpTo(S, n - 1)
         IN  shorter \cup {Append(s, e) : s \in {t \in shorter : Len(t) = n - 1}, e \in S}

\* Lists of -e options: in input order, duplicates allowed; to keep the number
\* of invocations small a list is either one entry repeated or A=1 followed by B=2.
EnvLists ==
    {l \in SeqsUpTo(EnvEntries, MaxEnv) :
        \/ \A i \in 1..Len(l) : l[i] = l[1]
        \/ /\ Len(l) >= 2
           /\ l[1] = <<"A", "=", "1">>
           /\ \A i \in 2..Len(l) : l[i] = <<"B", "=", "2">>}

\* SOURCE_DIR values tried: a local path and repository URLs.
Sources ==
    { [scheme |-> "", path |-> "test_sources/applications/html"],
      [scheme |-> "git", path |-> "host/app.git"],
      [scheme |-> "ssh", path |-> "host/app.git"] }

VARIABLES
    args,        \* the docopt dictionary of this invocation
    pc,          \* position in the code
    stack,       \* return addresses and active try blocks, innermost first
    exc,         \* the exception in flight, "none" otherwise
    loc,         \* local variables of the active functions
    local,       \* image references listed by the runtime (the local registry)
    made,        \* image references that name an image made by this run
    image_cfg,   \* what the runtime holds about the images that were looked at
    containers,  \* containers that exist in the runtime
    nextId,      \* the id the runtime gives to the next container
    fs,          \* directories and files that exist locally
    dockerfile,  \* the lines written to the Dockerfile
    verdicts,    \* what each completed validation of an image returned
    calls,       \* the calls made so far, in order
    exit_code,   \* the exit status of the process
    peer,        \* a second run against the same runtime, NoPeer when alone
    local0       \* the local registry before any run began

ctl == <<pc, stack, exc>>
docker == <<local, made, image_cfg, containers, nextId>>
vars == <<args, pc, stack, exc, loc, local, made, image_cfg, containers,
          nextId, fs, dockerfile, verdicts, calls, exit_code, peer, local0>>

(***************************************************************************)
(* Control flow: calls, returns, try blocks, exceptions                    *)
(***************************************************************************)
Exceptions == {"APIError", "TypeError", "IndexError", "OSError"}

RetFrame(l) == [k |-> "ret", l |-> l, c |-> {}]
TryFrame(l, caught) == [k |-> "try", l |-> l, c |-> caught]

\* Where a raised exception lands: the innermost try block that handles it,
\* or the top of the process when there is none.
RECURSIVE Unwind(_, _)
Unwind(stk, e) ==
    IF stk = <<>> THEN [pc |-> "uncaught", stack |-> <<>>]
    ELSE IF Head(stk).k = "try" /\ e \in Head(stk).c
         THEN [pc |-> Head(stk).l, stack |-> Tail(stk)]
         ELSE Unwind(Tail(stk), e)

Goto(l) == pc' = l /\ UNCHANGED <<stack, exc>>
Call(entry, retl) ==
    pc' = entry /\ stack' = <<RetFrame(retl)>> \o stack /\ UNCHANGED exc
Return == pc' = Head(stack).l /\ stack' = Tail(stack) /\ UNCHANGED exc
Raise(e) ==
    /\ pc' = Unwind(stack, e).pc
    /\ stack' = Unwind(stack, e).stack
    /\ exc' = e
\* the end of a finally block: the pending exception goes on, else the code does
EndFinally(next) == IF exc # "none" THEN Raise(exc) ELSE Goto(next)

\* A call and how it ended: ok is FALSE when it raised (a command: when it
\* exited with another status than 0).
CallOf(op, arg, ok) == [op |-> op, arg |-> arg, ok |-> ok]
Did(op, arg, ok) == calls' = Append(calls, CallOf(op, arg, ok))
Logged(op, arg) == Did(op, arg, TRUE)
\* how a call names the container it is about
Named(id) == ToString(id)

\* docker_client.images(name): the listed images; no name lists them all
Images(name) == IF name = NoneRef THEN local ELSE local \cap {name}

(***************************************************************************)
(* Invocations                                                             *)
(***************************************************************************)
\* sti build SOURCE_DIR BUILD_IMAGE_TAG APP_IMAGE_TAG [--runtime-image=..]
\*     [--clean] [-e ENV_NAME=VALUE]... [--dir=WORKING_DIR]
StiBuildArgs ==
    [prog : {"sti"}, cmd : {"build"}, image : {"builder"},
     runtime_image : {NoneRef, "runtime"}, app_image : {"app"},
     prev_build : {NoneRef}, source : Sources, clean : BOOLEAN,
     incremental : {FALSE}, working_dir : {NoDir, WorkDir}, env_str : EnvLists]

\* sti validate BUILD_IMAGE_TAG [--runtime-image=..] [--incremental]:
\* docopt leaves the options of the other command at None, False and [].
StiValidateArgs ==
    [prog : {"sti"}, cmd : {"validate"}, image : {"builder"},
     runtime_image : {NoneRef, "runtime"}, app_image : {NoneRef},
     prev_build : {NoneRef}, source : {[scheme |-> "", path |-> NoneRef]},
     clean : {FALSE}, incremental : BOOLEAN, working_dir : {NoDir},
     env_str : {<<>>}]

\* wharfie build IMAGE_NAME SOURCE_DIR [--tag=BUILD_TAG]
\*     [--incremental=PREV_BUILD] [-e ENV_NAME=VALUE]...
WharfieBuildArgs ==
    [prog : {"wharfie"}, cmd : {"build"}, image : {"builder"},
     runtime_image : {NoneRef}, app_image : {NoneRef, "app"},
     prev_build : {NoneRef, "prev"},
     source : {s \in Sources : s.scheme = ""}, clean : {FALSE},
     incremental : {FALSE}, working_dir : {NoDir}, env_str : EnvLists]

\* wharfie validate IMAGE_NAME [--supports-incremental]
WharfieValidateArgs ==
    [prog : {"wharfie"}, cmd : {"validate"}, image : {"builder"},
     runtime_image : {NoneRef}, app_image : {NoneRef},
     prev_build : {NoneRef}, source : {[scheme |-> "", path |-> NoneRef]},
     clean : {FALSE}, incremental : BOOLEAN, working_dir : {NoDir},
     env_str : {<<>>}]

Invocations ==
    StiBuildArgs \cup StiValidateArgs \cup WharfieBuildArgs \cup WharfieValidateArgs

\* The image that a build without --clean takes for the previous build.
PriorImage(a) ==
    IF a.prog = "wharfie" THEN a.prev_build
    ELSE IF Truthy(a.runtime_image) THEN AppBuildTag(a.app_image)
    ELSE a.app_image

\* The references whose presence in the local registry the run depends on.
NamedImages(a) ==
    ({PriorImage(a)} \ {NoneRef})
        \cup (IF a.cmd = "validate" \/ a.prog = "wharfie"
              THEN {a.image, a.runtime_image} \ {NoneRef} ELSE {})

\* The variables of a second run, before its main began; a run that is alone
\* has NoPeer beside it.
PeerAt(l, tag) ==
    [pc |-> l, tag |-> tag, is_incremental |-> FALSE, pulled |-> FALSE,
     container_id |-> NoId]
NoPeer == PeerAt("absent", NoneRef)

InitLoc ==
    [is_incremental |-> FALSE, validations |-> <<>>, idx |-> 1,
     pi_image |-> NoneRef, image_name |-> NoneRef, container_id |-> NoId,
     validate_incremental |-> FALSE, valid |-> FALSE, result |-> "unset",
     sa_image |-> NoneRef, sa_dir |-> NoDir, sa_id |-> NoId, sa_exitcode |-> 0,
     exitcode |-> 0,
     build_dir |-> NoDir, build_container_id |-> NoId, img |-> "unset",
     src |-> "unset", target_source_dir |-> NoDir,
     bdi_image |-> NoneRef, bdi_dir |-> NoDir,
     bdi_incremental |-> FALSE, commit_id |-> NoneRef, listed |-> FALSE,
     report |-> "unset"]

Init ==
    /\ args \in Invocations
    /\ pc = "main"
    /\ stack = <<>>
    /\ exc = "none"
    /\ loc = InitLoc
    /\ local \in SUBSET NamedImages(args)
    /\ made = {}
    /\ image_cfg = {}
    /\ containers = {}
    /\ nextId = 1
    /\ fs = IF args.working_dir = NoDir THEN {} ELSE {args.working_dir}
    /\ dockerfile = <<>>
    /\ verdicts = <<>>
    /\ calls = <<>>
    /\ exit_code = Running
    /\ peer = NoPeer
    /\ local0 = local

(***************************************************************************)
(* sti: Builder.main                                                       *)
(***************************************************************************)
\* a main that takes every build for an incremental one
IsIncrementalAlways(a) == TRUE

\* is_incremental = not self.arguments['--clean']
IsIncrementalArg(a) == ~a.clean

\* main, to the first call: the try block is entered and, unless --clean was
\* given, the previous build is looked for with pull_image.
StiMain ==
    /\ pc = "main" /\ args.prog = "sti"
    /\ loc' = [loc EXCEPT !.is_incremental = IsIncrementalArg(args),
                          !.pi_image = PriorImage(args)]
    /\ stack' = IF IsIncrementalArg(args)
                THEN <<RetFrame("m_islocal"), TryFrame("m_finally", Exceptions)>>
                ELSE <<TryFrame("m_finally", Exceptions)>>
    /\ pc' = IF IsIncrementalArg(args) THEN "pull_image" ELSE "m_dispatch"
    /\ UNCHANGED <<args, peer, local0, exc, docker, fs, dockerfile, verdicts, calls, exit_code>>

\* a main that lists the previous image and keeps is_incremental as it was
StiMainIsLocalUnread ==
    /\ pc = "m_islocal"
    /\ \/ /\ UNCHANGED loc
          /\ Did("images", PriorImage(args), TRUE)
          /\ Goto("m_dispatch")
       \/ /\ Raise("APIError")
          /\ Did("images", PriorImage(args), FALSE)
          /\ UNCHANGED loc
    /\ UNCHANGED <<args, peer, local0, docker, fs, dockerfile, verdicts, exit_code>>

\* is_incremental = self.is_image_in_local_registry(...)
StiMainIsLocal ==
    /\ pc = "m_islocal"
    /\ \/ /\ loc' = [loc EXCEPT !.is_incremental = (Images(PriorImage(args)) # {})]
          /\ Did("images", PriorImage(args), TRUE)
          /\ Goto("m_dispatch")
       \/ /\ Raise("APIError")
          /\ Did("images", PriorImage(args), FALSE)
          /\ UNCHANGED loc
    /\ UNCHANGED <<args, peer, local0, docker, fs, dockerfile, verdicts, exit_code>>

\* the validations asked for by "sti validate"
Validations(a) ==
    IF Truthy(a.runtime_image)
    THEN << [description |-> "Runtime image", image_name |-> a.runtime_image,
             validate_incremental |-> FALSE],
            [description |-> "Build image", image_name |-> a.image,
             validate_incremental |-> TRUE] >>
    ELSE << [description |-> "Target image", image_name |-> a.image,
             validate_incremental |-> a.incremental] >>

\* the branch on the command: validate_images, extended_build or build
StiMainDispatch ==
    /\ pc = "m_dispatch"
    /\ \/ /\ args.cmd = "validate"
          /\ loc' = [loc EXCEPT !.validations = Validations(args), !.idx = 1]
          /\ Call("validate_images", "m_end")
       \/ /\ args.cmd = "build" /\ Truthy(args.runtime_image)
          /\ UNCHANGED loc
          /\ Call("extended_build", "m_end")
       \/ /\ args.cmd = "build" /\ ~Truthy(args.runtime_image)
          /\ UNCHANGED loc
          /\ Call("build", "m_end")
    /\ UNCHANGED <<args, peer, local0, docker, fs, dockerfile, verdicts, calls, exit_code>>

\* the try block of main ends normally
MainEnd ==
    /\ pc = "m_end"
    /\ pc' = "m_finally" /\ stack' = Tail(stack) /\ UNCHANGED exc
    /\ UNCHANGED <<args, peer, local0, loc, docker, fs, dockerfile, verdicts, calls, exit_code>>

\* finally: self.docker_client.close()
MainFinally ==
    /\ pc = "m_finally"
    /\ Logged("close", NoneRef)
    /\ EndFinally("returned")
    /\ UNCHANGED <<args, peer, local0, loc, docker, fs, dockerfile, verdicts, exit_code>>

\* The status of the process: builder.main() returned, whatever it returned,
\* and the interpreter ends with 0; an exception nobody caught ends it with 1.
ExitStatus(at) == IF at = "uncaught" THEN 1 ELSE 0

ProcessExit ==
    /\ pc \in {"returned", "uncaught"}
    /\ exit_code' = <<ExitStatus(pc)>>
    /\ pc' = "exit"
    /\ UNCHANGED <<args, peer, local0, stack, exc, loc, docker, fs, dockerfile, verdicts, calls>>

(***************************************************************************)
(* sti: pull_image                                                         *)
(***************************************************************************)
\* if not self.is_image_in_local_registry(image_name): ...
PullImageCheck ==
    /\ pc = "pull_image"
    /\ \/ /\ Did("images", loc.pi_image, TRUE)
          /\ IF Images(loc.pi_image) # {} THEN Return ELSE Goto("pi_pull")
       \/ /\ Did("images", loc.pi_image, FALSE)
          /\ Raise("APIError")
    /\ UNCHANGED <<args, peer, local0, loc, docker, fs, dockerfile, verdicts, exit_code>>

\* self.docker_client.pull(image_name): the image arrives, or the call returns
\* without it (the registry does not have it), or the call fails.
PullImagePull ==
    /\ pc = "pi_pull"
    /\ \/ /\ Truthy(loc.pi_image)
          /\ Did("pull", loc.pi_image, TRUE)
          /\ local' = local \cup {loc.pi_image}
          /\ Return
       \/ /\ UNCHANGED local
          /\ Did("pull", loc.pi_image, TRUE)
          /\ Return
       \/ /\ UNCHANGED local
          /\ Did("pull", loc.pi_image, FALSE)
          /\ Raise("APIError")
    /\ UNCHANGED <<args, peer, local0, loc, made, image_cfg, containers, nextId, fs,
                   dockerfile, verdicts, exit_code>>

(***************************************************************************)
(* The runtime's images and containers                                     *)
(***************************************************************************)
\* The configurations an image can have: an Entrypoint or none, and any of
\* the lifecycle scripts.
ImageConfigs(image) ==
    [image : {image}, Entrypoint : BOOLEAN, files : SUBSET Scripts]

\* The runtime looks at an image for the first time: its configuration is
\* one of the possible ones, and stays.
Looked(image) ==
    IF \E c \in image_cfg : c.image = image
    THEN UNCHANGED image_cfg
    ELSE \E c \in ImageConfigs(image) : image_cfg' = image_cfg \cup {c}

CfgOf(image) == CHOOSE c \in image_cfg : c.image = image

Container(id, image, command) == [id |-> id, image |-> image, command |-> command]

\* the containers of one kind: probes, save-artifacts containers, build containers
Live(command) == {c \in containers : c.command = command}
IsLive(id) == \E c \in containers : c.id = id

\* a removal that takes every container of the runtime with it
RemovedAll(id) == {}

\* docker_client.remove_container(id)
Removed(id) == {c \in containers : c.id # id}

(***************************************************************************)
(* sti: validate_images, create_container, validate_image                  *)
(***************************************************************************)
\* for request in requests: ... self.pull_image(image_name)
ValidateImagesLoop ==
    /\ pc = "validate_images"
    /\ IF loc.idx > Len(loc.validations)
       THEN /\ loc' = [loc EXCEPT !.result = "True"]
            /\ Return
            /\ UNCHANGED image_cfg
       ELSE /\ loc' = [loc EXCEPT
                  !.image_name = loc.validations[loc.idx].image_name,
                  !.validate_incremental =
                      loc.validations[loc.idx].validate_incremental,
                  !.pi_image = loc.validations[loc.idx].image_name]
            /\ Looked(loc.validations[loc.idx].image_name)
            /\ Call("pull_image", "vi_create")
    /\ UNCHANGED <<args, peer, local0, local, made, containers, nextId, fs, dockerfile,
                   verdicts, calls, exit_code>>

\* container_id = self.create_container(image_name): the try block is entered
ValidateImagesCreate ==
    /\ pc = "vi_create"
    /\ pc' = "create_container"
    /\ stack' = <<TryFrame("cc_except", {"APIError"}), RetFrame("vi_created")>>
                    \o stack
    /\ UNCHANGED <<args, peer, local0, exc, loc, docker, fs, dockerfile, verdicts, calls,
                   exit_code>>

\* self.docker_client.create_container(image_name, command='/bin/true')
CreateContainerCreate ==
    /\ pc = "create_container"
    /\ \/ /\ Images(loc.image_name) # {}
          /\ Did("create_container", loc.image_name, TRUE)
          /\ containers' =
                 containers \cup {Container(nextId, loc.image_name, "/bin/true")}
          /\ nextId' = nextId + 1
          /\ loc' = [loc EXCEPT !.container_id = nextId]
          /\ Goto("cc_start")
       \/ /\ Raise("APIError")
          /\ Did("create_container", loc.image_name, FALSE)
          /\ UNCHANGED <<containers, nextId, loc>>
    /\ UNCHANGED <<args, peer, local0, local, made, image_cfg, fs, dockerfile, verdicts,
                   exit_code>>

\* self.docker_client.start(container_id)
CreateContainerStart ==
    /\ pc = "cc_start"
    /\ \/ /\ Did("start", Named(loc.container_id), TRUE)
          /\ Goto("cc_wait")
       \/ /\ Did("start", Named(loc.container_id), FALSE)
          /\ Raise("APIError")
    /\ UNCHANGED <<args, peer, local0, loc, docker, fs, dockerfile, verdicts, exit_code>>

\* exitcode = self.docker_client.wait(container_id); return container_id
CreateContainerWait ==
    /\ pc = "cc_wait"
    /\ \/ /\ pc' = stack[2].l
          /\ Did("wait", Named(loc.container_id), TRUE)
          /\ stack' = Tail(Tail(stack))
          /\ UNCHANGED exc
       \/ /\ Did("wait", Named(loc.container_id), FALSE)
          /\ Raise("APIError")
    /\ UNCHANGED <<args, peer, local0, loc, docker, fs, dockerfile, verdicts, exit_code>>

\* except docker.APIError: return None
CreateContainerExcept ==
    /\ pc = "cc_except"
    /\ loc' = [loc EXCEPT !.container_id = NoId]
    /\ pc' = Head(stack).l /\ stack' = Tail(stack) /\ exc' = "none"
    /\ UNCHANGED <<args, peer, local0, docker, fs, dockerfile, verdicts, calls, exit_code>>

\* if not container_id: return False
ValidateImagesCreated ==
    /\ pc = "vi_created"
    /\ IF loc.container_id = NoId
       THEN /\ loc' = [loc EXCEPT !.result = "False"]
            /\ Return
       ELSE /\ UNCHANGED loc
            /\ Call("validate_image", "vi_remove")
    /\ UNCHANGED <<args, peer, local0, docker, fs, dockerfile, verdicts, calls, exit_code>>

\* what one validation of an image returned, with what the image holds
\* and the place that returned: "not listed", "entrypoint", "files" (the
\* probe was completed) or "error" (a failed call was answered with False)
Verdict(prog, image, incremental, via, result) ==
    [prog |-> prog, image |-> image, incremental |-> incremental,
     via |-> via, Entrypoint |-> CfgOf(image).Entrypoint,
     files |-> CfgOf(image).files, result |-> result]

\* images = self.docker_client.images(image_name); if len(images) < 1: return False
ValidateImageImages ==
    /\ pc = "validate_image"
    /\ \/ /\ Did("images", loc.image_name, TRUE)
          /\ IF Images(loc.image_name) = {}
             THEN /\ loc' = [loc EXCEPT !.valid = FALSE]
                  /\ verdicts' = Append(verdicts,
                         Verdict("sti", loc.image_name, loc.validate_incremental,
                                 "not listed", FALSE))
                  /\ Return
             ELSE /\ UNCHANGED <<loc, verdicts>>
                  /\ Goto("vim_inspect")
       \/ /\ Raise("APIError")
          /\ Did("images", loc.image_name, FALSE)
          /\ UNCHANGED <<loc, verdicts>>
    /\ UNCHANGED <<args, peer, local0, docker, fs, dockerfile, exit_code>>

\* a list of required files that leaves save-artifacts out
RequiredFilesWithoutSave(validate_incremental) == <<Prepare, Run>>

\* required_files = ['/usr/bin/prepare', '/usr/bin/run'], and save-artifacts
\* when incremental builds are to be supported
RequiredFiles(validate_incremental) ==
    <<Prepare, Run>> \o (IF validate_incremental THEN <<SaveArtifacts>> ELSE <<>>)

\* check_file_exists: docker_client.copy raises docker.APIError when the
\* container does not hold the file
CheckFileExists(present, file_path) == file_path \in present

\* validate_required_files: every file is probed, one miss makes the image invalid
ValidateRequiredFiles(present, required_files) ==
    \A i \in 1..Len(required_files) : CheckFileExists(present, required_files[i])

\* the copy calls of validate_required_files, in order
CopyCalls(present, required_files) ==
    [i \in 1..Len(required_files) |->
        CallOf("copy", required_files[i],
               CheckFileExists(present, required_files[i]))]

\* image = self.docker_client.inspect_image(...); an Entrypoint fails the
\* image; else valid_image = self.validate_required_files(...)
ValidateImageInspect ==
    /\ pc = "vim_inspect"
    /\ \/ /\ CfgOf(loc.image_name).Entrypoint
          /\ Logged("inspect_image", loc.image_name)
          /\ loc' = [loc EXCEPT !.valid = FALSE]
          /\ verdicts' = Append(verdicts,
                 Verdict("sti", loc.image_name, loc.validate_incremental,
                         "entrypoint", FALSE))
          /\ Return
       \/ /\ ~CfgOf(loc.image_name).Entrypoint
          /\ calls' = Append(calls, CallOf("inspect_image", loc.image_name, TRUE))
                          \o CopyCalls(CfgOf(loc.image_name).files,
                                       RequiredFiles(loc.validate_incremental))
          /\ LET valid_image ==
                     ValidateRequiredFiles(CfgOf(loc.image_name).files,
                         RequiredFiles(loc.validate_incremental))
             IN  /\ loc' = [loc EXCEPT !.valid = valid_image]
                 /\ verdicts' = Append(verdicts,
                        Verdict("sti", loc.image_name, loc.validate_incremental,
                                "files", valid_image))
          /\ Return
       \/ /\ Did("inspect_image", loc.image_name, FALSE)
          /\ Raise("APIError")
          /\ UNCHANGED <<loc, verdicts>>
    /\ UNCHANGED <<args, peer, local0, docker, fs, dockerfile, exit_code>>

\* a validate_images that goes on to the next request after one that failed
ValidateImagesRemoveGoOn ==
    /\ pc = "vi_remove"
    /\ \/ /\ containers' = Removed(loc.container_id)
          /\ Did("remove_container", Named(loc.container_id), TRUE)
          /\ loc' = [loc EXCEPT !.idx = loc.idx + 1]
          /\ Goto("validate_images")
       \/ /\ Raise("APIError")
          /\ Did("remove_container", Named(loc.container_id), FALSE)
          /\ UNCHANGED <<containers, loc>>
    /\ UNCHANGED <<args, peer, local0, local, made, image_cfg, nextId, fs, dockerfile,
                   verdicts, exit_code>>

\* self.remove_container(container_id); if not valid: return False
ValidateImagesRemove ==
    /\ pc = "vi_remove"
    /\ \/ /\ containers' = Removed(loc.container_id)
          /\ Did("remove_container", Named(loc.container_id), TRUE)
          /\ IF ~loc.valid
             THEN /\ loc' = [loc EXCEPT !.result = "False"]
                  /\ Return
             ELSE /\ loc' = [loc EXCEPT !.idx = loc.idx + 1]
                  /\ Goto("validate_images")
       \/ /\ Raise("APIError")
          /\ Did("remove_container", Named(loc.container_id), FALSE)
          /\ UNCHANGED <<containers, loc>>
    /\ UNCHANGED <<args, peer, local0, local, made, image_cfg, nextId, fs, dockerfile,
                   verdicts, exit_code>>

(***************************************************************************)
(* sti: save_artifacts                                                     *)
(***************************************************************************)
\* container = self.docker_client.create_container(image_name,
\*     ["/usr/bin/save-artifacts"], volumes={"/usr/artifacts": {}})
SaveArtifactsCreate ==
    /\ pc = "save_artifacts"
    /\ \/ /\ Images(loc.sa_image) # {}
          /\ Did("create_container", loc.sa_image, TRUE)
          /\ containers' =
                 containers \cup {Container(nextId, loc.sa_image, SaveArtifacts)}
          /\ nextId' = nextId + 1
          /\ loc' = [loc EXCEPT !.sa_id = nextId]
          /\ Goto("sa_start")
       \/ /\ Raise("APIError")
          /\ Did("create_container", loc.sa_image, FALSE)
          /\ UNCHANGED <<containers, nextId, loc>>
    /\ UNCHANGED <<args, peer, local0, local, made, image_cfg, fs, dockerfile, verdicts,
                   exit_code>>

\* self.docker_client.start(container_id, binds={target_dir: "/usr/artifacts"})
SaveArtifactsStart ==
    /\ pc = "sa_start"
    /\ \/ /\ Did("start", Named(loc.sa_id), TRUE)
          /\ Goto("sa_wait")
       \/ /\ Did("start", Named(loc.sa_id), FALSE)
          /\ Raise("APIError")
    /\ UNCHANGED <<args, peer, local0, loc, docker, fs, dockerfile, verdicts, exit_code>>

\* a save_artifacts that gives up when the script exited with another status
\* than 0
SaveArtifactsWaitChecked ==
    /\ pc = "sa_wait"
    /\ \/ /\ Did("wait", Named(loc.sa_id), TRUE)
          /\ \E code \in {0, 1} :
                /\ loc' = [loc EXCEPT !.sa_exitcode = code]
                /\ fs' = IF code = 0 THEN fs \cup {Join(loc.sa_dir, "saved")} ELSE fs
                /\ IF code = 0 THEN Goto("sa_logs") ELSE Raise("OSError")
       \/ /\ Raise("APIError")
          /\ Did("wait", Named(loc.sa_id), FALSE)
          /\ UNCHANGED <<loc, fs>>
    /\ UNCHANGED <<args, peer, local0, docker, dockerfile, verdicts, exit_code>>

\* exitcode = self.docker_client.wait(container_id): the script has written
\* what it saved to the bound directory, and exited with 0 or not (exitcode
\* is save_artifacts' own variable: sa_exitcode here)
SaveArtifactsWait ==
    /\ pc = "sa_wait"
    /\ \/ /\ Did("wait", Named(loc.sa_id), TRUE)
          /\ \E code \in {0, 1} :
                /\ loc' = [loc EXCEPT !.sa_exitcode = code]
                /\ fs' = IF code = 0 THEN fs \cup {Join(loc.sa_dir, "saved")} ELSE fs
          /\ Goto("sa_logs")
       \/ /\ Raise("APIError")
          /\ Did("wait", Named(loc.sa_id), FALSE)
          /\ UNCHANGED <<loc, fs>>
    /\ UNCHANGED <<args, peer, local0, docker, dockerfile, verdicts, exit_code>>

\* self.logger.debug(self.docker_client.logs(container_id))
SaveArtifactsLogs ==
    /\ pc = "sa_logs"
    /\ \/ /\ Did("logs", Named(loc.sa_id), TRUE)
          /\ Goto("sa_remove")
       \/ /\ Did("logs", Named(loc.sa_id), FALSE)
          /\ Raise("APIError")
    /\ UNCHANGED <<args, peer, local0, loc, docker, fs, dockerfile, verdicts, exit_code>>

\* self.docker_client.remove_container(container_id)
SaveArtifactsRemove ==
    /\ pc = "sa_remove"
    /\ \/ /\ containers' = Removed(loc.sa_id)
          /\ Did("remove_container", Named(loc.sa_id), TRUE)
          /\ Return
       \/ /\ Raise("APIError")
          /\ Did("remove_container", Named(loc.sa_id), FALSE)
          /\ UNCHANGED containers
    /\ UNCHANGED <<args, peer, local0, loc, local, made, image_cfg, nextId, fs, dockerfile,
                   verdicts, exit_code>>

(***************************************************************************)
(* sti: prepare_source_dir                                                 *)
(***************************************************************************)
\* re.match('^(http(s?)|git|file)://', source)
IsRepository(source) == source.scheme \in {"http", "https", "git", "file"}

\* A repository is cloned with git: exit status 0 leaves the clone in the
\* target directory, another status is caught, logged and answered with
\* False.  Any other source is copied with shutil.copytree, which raises
\* when the source cannot be read or the target exists.
PrepareSourceDir ==
    /\ pc = "prepare_source_dir"
    /\ \/ /\ IsRepository(args.source)
          /\ Logged("git clone", args.source.path)
          /\ fs' = fs \cup {loc.target_source_dir,
                             Join(loc.target_source_dir, "index.html")}
          /\ loc' = [loc EXCEPT !.src = "None"]
          /\ Return
       \/ /\ IsRepository(args.source)
          /\ Did("git clone", args.source.path, FALSE)
          /\ loc' = [loc EXCEPT !.src = "False"]
          /\ UNCHANGED fs
          /\ Return
       \/ /\ ~IsRepository(args.source)
          /\ Logged("copytree", args.source.path)
          /\ fs' = fs \cup {loc.target_source_dir,
                             Join(loc.target_source_dir, "index.html")}
          /\ loc' = [loc EXCEPT !.src = "None"]
          /\ Return
       \/ /\ ~IsRepository(args.source)
          /\ Did("copytree", args.source.path, FALSE)
          /\ UNCHANGED <<fs, loc>>
          /\ Raise("OSError")
    /\ UNCHANGED <<args, peer, local0, docker, dockerfile, verdicts, exit_code>>

(***************************************************************************)
(* sti: build_deployable_image                                             *)
(***************************************************************************)
\* str.split(sep) of Python: the text is cut at every separator
RECURSIVE Split(_, _)
Split(text, sep) ==
    IF \A i \in 1..Len(text) : text[i] # sep THEN <<text>>
    ELSE LET i == CHOOSE k \in 1..Len(text) :
                      text[k] = sep /\ \A j \in 1..(k - 1) : text[j] # sep
         IN  <<SubSeq(text, 1, i - 1)>> \o Split(SubSeq(text, i + 1, Len(text)), sep)

\* the text made of the given characters
RECURSIVE Text(_)
Text(chars) == IF chars = <<>> THEN "" ELSE Head(chars) \o Text(Tail(chars))

Line(op, a, b) == [op |-> op, a |-> a, b |-> b]

\* env = env.split("="); name = env[0]; value = env[1]
EnvName(env) == Text(Split(env, "=")[1])
EnvValue(env) == Text(Split(env, "=")[2])
\* env[1] raises IndexError when the entry holds no "="
IsMalformed(env) == Len(Split(env, "=")) < 2

\* the ENV lines written before the first entry that raises
RECURSIVE EnvLines(_)
EnvLines(env_str) ==
    IF env_str = <<>> \/ IsMalformed(Head(env_str)) THEN <<>>
    ELSE <<Line("ENV", EnvName(Head(env_str)), EnvValue(Head(env_str)))>>
             \o EnvLines(Tail(env_str))

\* a generation that takes every entry for a well-formed one
HasMalformedNever(env_str) == FALSE

HasMalformed(env_str) == \E i \in 1..Len(env_str) : IsMalformed(env_str[i])

\* a generation that writes the ENV lines before the ADD lines
DockerfileLinesEnvFirst(image_name, env_str, incremental) ==
    <<Line("FROM", image_name, "")>>
        \o EnvLines(env_str)
        \o <<Line("ADD", "./src", "/usr/src/")>>
        \o (IF incremental THEN <<Line("ADD", "./artifacts", "/usr/artifacts/")>>
            ELSE <<>>)
        \o (IF HasMalformed(env_str) THEN <<>>
            ELSE <<Line("RUN", "/usr/bin/prepare", ""), Line("CMD", "/usr/bin/run", "")>>)

\* the lines that reach the Dockerfile: all of them, or those written when
\* an entry raised
DockerfileLines(image_name, env_str, incremental) ==
    <<Line("FROM", image_name, ""), Line("ADD", "./src", "/usr/src/")>>
        \o (IF incremental THEN <<Line("ADD", "./artifacts", "/usr/artifacts/")>>
            ELSE <<>>)
        \o EnvLines(env_str)
        \o (IF HasMalformed(env_str) THEN <<>>
            ELSE <<Line("RUN", "/usr/bin/prepare", ""), Line("CMD", "/usr/bin/run", "")>>)

\* with open(os.path.join(context_dir, 'Dockerfile'), 'w+') as docker_file: ...
BuildDeployableImageWrite ==
    /\ pc = "build_deployable_image"
    /\ fs' = fs \cup {Join(loc.bdi_dir, "Dockerfile")}
    /\ dockerfile' =
           DockerfileLines(loc.bdi_image, args.env_str, loc.bdi_incremental)
    /\ IF HasMalformed(args.env_str) THEN Raise("IndexError") ELSE Goto("bdi_build")
    /\ UNCHANGED <<args, peer, local0, loc, docker, verdicts, calls, exit_code>>

\* img, logs = self.docker_client.build(tag=tag, path=context_dir, rm=True):
\* the new image and its tag, or no image, or a failed call
BuildDeployableImageBuild ==
    /\ pc = "bdi_build"
    /\ \/ /\ loc' = [loc EXCEPT !.img = "sha256:new"]
          /\ Did("build", args.app_image, TRUE)
          /\ local' = local \cup ({args.app_image} \ {NoneRef})
          /\ made' = made \cup ({args.app_image} \ {NoneRef})
          /\ Return
       \/ /\ loc' = [loc EXCEPT !.img = NoneRef]
          /\ Did("build", args.app_image, TRUE)
          /\ UNCHANGED <<local, made>>
          /\ Return
       \/ /\ Raise("APIError")
          /\ Did("build", args.app_image, FALSE)
          /\ UNCHANGED <<loc, local, made>>
    /\ UNCHANGED <<args, peer, local0, image_cfg, containers, nextId, fs, dockerfile,
                   verdicts, exit_code>>

(***************************************************************************)
(* sti: build (the runtime image is the build image)                       *)
(***************************************************************************)
\* what is logged about the image the runtime's build returned:
\* logger.info("Built image ...") or logger.critical("... build failed.")
Reported(img) == IF img # NoneRef THEN "built" ELSE "failed"

\* build_dir = working_dir or tempfile.mkdtemp()
BuildDir(working_dir) == IF working_dir = NoDir THEN TempDir ELSE working_dir

\* a cleanup that does not look at working_dir
BuildCleanupAlways(files, working_dir, build_dir) == RmTree(files, build_dir)

\* finally: if not working_dir: shutil.rmtree(build_dir)
BuildCleanup(files, working_dir, build_dir) ==
    IF working_dir = NoDir THEN RmTree(files, build_dir) ELSE files

\* The start of build: the build directory, the try block and, in an
\* incremental build, the artifacts directory and save_artifacts.
Build ==
    /\ pc = "build"
    /\ LET build_dir == BuildDir(args.working_dir)
           artifact_tmp_dir == Join(build_dir, "artifacts")
       IN  IF loc.is_incremental
           THEN /\ fs' = fs \cup {build_dir, artifact_tmp_dir}
                /\ loc' = [loc EXCEPT !.build_dir = build_dir,
                                      !.sa_image = args.app_image,
                                      !.sa_dir = artifact_tmp_dir]
                /\ pc' = "save_artifacts"
                /\ stack' = <<RetFrame("b_src"), TryFrame("b_finally", Exceptions)>>
                                \o stack
           ELSE /\ fs' = fs \cup {build_dir}
                /\ loc' = [loc EXCEPT !.build_dir = build_dir]
                /\ pc' = "b_src"
                /\ stack' = <<TryFrame("b_finally", Exceptions)>> \o stack
    /\ UNCHANGED <<args, peer, local0, exc, docker, dockerfile, verdicts, calls, exit_code>>

\* self.prepare_source_dir(source_dir, build_context_source)
BuildSource ==
    /\ pc = "b_src"
    /\ loc' = [loc EXCEPT !.target_source_dir = Join(loc.build_dir, "src")]
    /\ Call("prepare_source_dir", "b_image")
    /\ UNCHANGED <<args, peer, local0, docker, fs, dockerfile, verdicts, calls, exit_code>>

\* img = self.build_deployable_image(image_name, build_dir, tag, env_str,
\*                                   incremental_build)
BuildImage ==
    /\ pc = "b_image"
    /\ loc' = [loc EXCEPT !.bdi_image = args.image,
                          !.bdi_dir = loc.build_dir,
                          !.bdi_incremental = loc.is_incremental]
    /\ Call("build_deployable_image", "b_result")
    /\ UNCHANGED <<args, peer, local0, docker, fs, dockerfile, verdicts, calls, exit_code>>

\* if img is not None: ... else: ...: both branches only log; the try block
\* ends normally
BuildResult ==
    /\ pc = "b_result"
    /\ loc' = [loc EXCEPT !.report = Reported(loc.img)]
    /\ pc' = "b_finally" /\ stack' = Tail(stack) /\ UNCHANGED exc
    /\ UNCHANGED <<args, peer, local0, docker, fs, dockerfile, verdicts, calls, exit_code>>

BuildFinally ==
    /\ pc = "b_finally"
    /\ fs' = BuildCleanup(fs, args.working_dir, loc.build_dir)
    /\ IF exc # "none" THEN Raise(exc) ELSE Return
    /\ UNCHANGED <<args, peer, local0, loc, docker, dockerfile, verdicts, calls, exit_code>>

(***************************************************************************)
(* sti: extended_build (a build image and a runtime image)                 *)
(***************************************************************************)
builder_build_dir(build_dir) == Join(build_dir, "build")
runtime_build_dir(build_dir) == Join(build_dir, "runtime")
previous_build_volume(build_dir) ==
    Join(builder_build_dir(build_dir), "last_build_artifacts")
input_source_dir(build_dir) == Join(builder_build_dir(build_dir), "src")
output_source_dir(build_dir) == Join(runtime_build_dir(build_dir), "src")

\* if not working_dir: rmtree(builder_build_dir); rmtree(runtime_build_dir);
\* rmtree(build_dir)
ExtendedCleanup(files, working_dir, build_dir) ==
    IF working_dir = NoDir
    THEN RmTree(RmTree(RmTree(files, builder_build_dir(build_dir)),
                       runtime_build_dir(build_dir)), build_dir)
    ELSE files

\* The start of extended_build: the directories are made, the try block is
\* entered and, in an incremental build, the previous build image is pulled.
ExtendedBuild ==
    /\ pc = "extended_build"
    /\ LET build_dir == BuildDir(args.working_dir)
       IN  /\ fs' = fs \cup {build_dir, builder_build_dir(build_dir),
                             runtime_build_dir(build_dir),
                             previous_build_volume(build_dir),
                             output_source_dir(build_dir)}
           /\ loc' = [loc EXCEPT !.build_dir = build_dir,
                                 !.build_container_id = NoId,
                                 !.pi_image = AppBuildTag(args.app_image)]
    /\ IF loc.is_incremental
       THEN /\ pc' = "pull_image"
            /\ stack' = <<RetFrame("e_save"), TryFrame("e_finally", Exceptions)>>
                            \o stack
       ELSE /\ pc' = "e_src"
            /\ stack' = <<TryFrame("e_finally", Exceptions)>> \o stack
    /\ UNCHANGED <<args, peer, local0, exc, docker, dockerfile, verdicts, calls, exit_code>>

\* self.save_artifacts(app_build_tag, previous_build_volume)
ExtendedSave ==
    /\ pc = "e_save"
    /\ loc' = [loc EXCEPT !.sa_image = AppBuildTag(args.app_image),
                          !.sa_dir = previous_build_volume(loc.build_dir)]
    /\ Call("save_artifacts", "e_src")
    /\ UNCHANGED <<args, peer, local0, docker, fs, dockerfile, verdicts, calls, exit_code>>

\* self.prepare_source_dir(source_dir, input_source_dir)
ExtendedSource ==
    /\ pc = "e_src"
    /\ loc' = [loc EXCEPT !.target_source_dir = input_source_dir(loc.build_dir)]
    /\ Call("prepare_source_dir", "e_create")
    /\ UNCHANGED <<args, peer, local0, docker, fs, dockerfile, verdicts, calls, exit_code>>

\* build_container = self.docker_client.create_container(build_image,
\*     '/usr/bin/prepare', volumes=volumes)
ExtendedCreate ==
    /\ pc = "e_create"
    /\ \/ /\ Did("create_container", args.image, TRUE)
          /\ containers' =
                 containers \cup {Container(nextId, args.image, Prepare)}
          /\ nextId' = nextId + 1
          /\ loc' = [loc EXCEPT !.build_container_id = nextId]
          /\ Goto("e_start")
       \/ /\ Raise("APIError")
          /\ Did("create_container", args.image, FALSE)
          /\ UNCHANGED <<containers, nextId, loc>>
    /\ UNCHANGED <<args, peer, local0, local, made, image_cfg, fs, dockerfile, verdicts,
                   exit_code>>

\* self.docker_client.start(build_container_id, binds=bind_mounts)
ExtendedStart ==
    /\ pc = "e_start"
    /\ \/ /\ Did("start", Named(loc.build_container_id), TRUE)
          /\ Goto("e_wait")
       \/ /\ Did("start", Named(loc.build_container_id), FALSE)
          /\ Raise("APIError")
    /\ UNCHANGED <<args, peer, local0, loc, docker, fs, dockerfile, verdicts, exit_code>>

\* exitcode = self.docker_client.wait(build_container_id): prepare has left
\* what it built in the output directory, and exited with 0 or not
ExtendedWait ==
    /\ pc = "e_wait"
    /\ \/ /\ Did("wait", Named(loc.build_container_id), TRUE)
          /\ \E code \in {0, 1} :
                /\ loc' = [loc EXCEPT !.exitcode = code]
                /\ fs' = IF code = 0
                         THEN fs \cup {Join(output_source_dir(loc.build_dir), "app")}
                         ELSE fs
          /\ Goto("e_logs")
       \/ /\ Raise("APIError")
          /\ Did("wait", Named(loc.build_container_id), FALSE)
          /\ UNCHANGED <<loc, fs>>
    /\ UNCHANGED <<args, peer, local0, docker, dockerfile, verdicts, exit_code>>

\* an extended build that goes on to the runtime's build whatever the exit
\* code of prepare
ExtendedLogsUnchecked ==
    /\ pc = "e_logs"
    /\ \/ /\ Did("logs", Named(loc.build_container_id), TRUE)
          /\ loc' = [loc EXCEPT !.bdi_image = args.runtime_image,
                                !.bdi_dir = runtime_build_dir(loc.build_dir),
                                !.bdi_incremental = FALSE]
          /\ Call("build_deployable_image", "e_result")
       \/ /\ Raise("APIError")
          /\ Did("logs", Named(loc.build_container_id), FALSE)
          /\ UNCHANGED loc
    /\ UNCHANGED <<args, peer, local0, docker, fs, dockerfile, verdicts, exit_code>>

\* self.logger.debug(self.docker_client.logs(build_container_id));
\* if exitcode != 0: raise "Unable to build container" (raising a string is a
\* TypeError); img = self.build_deployable_image(runtime_image,
\* runtime_build_dir, tag, env_str)
ExtendedLogs ==
    /\ pc = "e_logs"
    /\ \/ /\ loc.exitcode # 0
          /\ Did("logs", Named(loc.build_container_id), TRUE)
          /\ Raise("TypeError")
          /\ UNCHANGED loc
       \/ /\ loc.exitcode = 0
          /\ Did("logs", Named(loc.build_container_id), TRUE)
          /\ loc' = [loc EXCEPT !.bdi_image = args.runtime_image,
                                !.bdi_dir = runtime_build_dir(loc.build_dir),
                                !.bdi_incremental = FALSE]
          /\ Call("build_deployable_image", "e_result")
       \/ /\ Raise("APIError")
          /\ Did("logs", Named(loc.build_container_id), FALSE)
          /\ UNCHANGED loc
    /\ UNCHANGED <<args, peer, local0, docker, fs, dockerfile, verdicts, exit_code>>

\* if img is not None: commit and tag the build container; else: log
\* an extended build that ends its try block after the runtime's build, with
\* no commit of the build container
ExtendedResultUncommitted ==
    /\ pc = "e_result"
    /\ pc' = "e_finally" /\ stack' = Tail(stack) /\ UNCHANGED exc
    /\ UNCHANGED <<args, peer, local0, loc, docker, fs, dockerfile, verdicts, calls, exit_code>>

\* an extended build that commits its build container whatever the
\* runtime's build returned
ExtendedResultCommitsAnyway ==
    /\ pc = "e_result"
    /\ Goto("e_commit")
    /\ UNCHANGED <<args, peer, local0, loc, docker, fs, dockerfile, verdicts, calls, exit_code>>

\* if img is not None: ... else: self.logger.critical("STI build failed.")
ExtendedResult ==
    /\ pc = "e_result"
    /\ IF loc.img # NoneRef
       THEN Goto("e_commit") /\ UNCHANGED loc
       ELSE /\ loc' = [loc EXCEPT !.report = Reported(loc.img)]
            /\ pc' = "e_finally" /\ stack' = Tail(stack) /\ UNCHANGED exc
    /\ UNCHANGED <<args, peer, local0, docker, fs, dockerfile, verdicts, calls, exit_code>>

\* build_container_img = self.docker_client.commit(build_container_id)
ExtendedCommit ==
    /\ pc = "e_commit"
    /\ \/ /\ loc' = [loc EXCEPT !.commit_id = "sha256:commit"]
          /\ Did("commit", Named(loc.build_container_id), TRUE)
          /\ Goto("e_tag")
       \/ /\ Raise("APIError")
          /\ Did("commit", Named(loc.build_container_id), FALSE)
          /\ UNCHANGED loc
    /\ UNCHANGED <<args, peer, local0, docker, fs, dockerfile, verdicts, exit_code>>

\* self.docker_client.tag(build_container_img['Id'], app_build_tag); the try
\* block ends normally
ExtendedTag ==
    /\ pc = "e_tag"
    /\ \/ /\ local' = local \cup {AppBuildTag(args.app_image)}
          /\ Did("tag", AppBuildTag(args.app_image), TRUE)
          /\ made' = made \cup {AppBuildTag(args.app_image)}
          /\ loc' = [loc EXCEPT !.report = Reported(loc.img)]
          /\ pc' = "e_finally" /\ stack' = Tail(stack) /\ UNCHANGED exc
       \/ /\ Raise("APIError")
          /\ Did("tag", AppBuildTag(args.app_image), FALSE)
          /\ UNCHANGED <<loc, local, made>>
    /\ UNCHANGED <<args, peer, local0, image_cfg, containers, nextId, fs, dockerfile,
                   verdicts, exit_code>>

\* a cleanup that removes the build container only after a build that raised
\* nothing, as it would when the removal stood at the end of the try block
ExtendedFinallyOnSuccess ==
    /\ pc = "e_finally"
    /\ \/ /\ (loc.build_container_id = NoId \/ exc # "none")
          /\ Goto("e_rmtree")
          /\ UNCHANGED <<containers, calls>>
       \/ /\ loc.build_container_id # NoId /\ exc = "none"
          /\ Logged("remove_container", Named(loc.build_container_id))
          /\ containers' = Removed(loc.build_container_id)
          /\ Goto("e_rmtree")
       \/ /\ loc.build_container_id # NoId /\ exc = "none"
          /\ Did("remove_container", Named(loc.build_container_id), FALSE)
          /\ Raise("APIError")
          /\ UNCHANGED containers
    /\ UNCHANGED <<args, peer, local0, loc, local, made, image_cfg, nextId, fs, dockerfile,
                   verdicts, exit_code>>

\* finally: if build_container_id != None: self.remove_container(...)
ExtendedFinally ==
    /\ pc = "e_finally"
    /\ \/ /\ loc.build_container_id = NoId
          /\ Goto("e_rmtree")
          /\ UNCHANGED <<containers, calls>>
       \/ /\ loc.build_container_id # NoId
          /\ Logged("remove_container", Named(loc.build_container_id))
          /\ containers' = Removed(loc.build_container_id)
          /\ Goto("e_rmtree")
       \/ /\ loc.build_container_id # NoId
          /\ Did("remove_container", Named(loc.build_container_id), FALSE)
          /\ Raise("APIError")
          /\ UNCHANGED containers
    /\ UNCHANGED <<args, peer, local0, loc, local, made, image_cfg, nextId, fs, dockerfile,
                   verdicts, exit_code>>

\* finally, continued: if not working_dir: the three rmtree calls
ExtendedRmTree ==
    /\ pc = "e_rmtree"
    /\ fs' = ExtendedCleanup(fs, args.working_dir, loc.build_dir)
    /\ IF exc # "none" THEN Raise(exc) ELSE Return
    /\ UNCHANGED <<args, peer, local0, loc, docker, dockerfile, verdicts, calls, exit_code>>

(***************************************************************************)
(* wharfie: Builder.main                                                   *)
(***************************************************************************)
\* main, to the first call: "validate" validates IMAGE_NAME; "build"
\* validates IMAGE_NAME first, for incremental builds when --incremental names
\* a previous build
WharfieMain ==
    /\ pc = "main" /\ args.prog = "wharfie"
    /\ loc' = [loc EXCEPT
           !.image_name = args.image,
           !.validate_incremental =
               IF args.cmd = "validate" THEN args.incremental
               ELSE Truthy(args.prev_build)]
    /\ pc' = "w_validate_image"
    /\ stack' = <<RetFrame(IF args.cmd = "validate" THEN "wm_end"
                           ELSE IF Truthy(args.prev_build) THEN "wm_first"
                           ELSE "wm_last"),
                  TryFrame("wm_finally", Exceptions)>>
    /\ UNCHANGED <<args, peer, local0, exc, docker, fs, dockerfile, verdicts, calls, exit_code>>

\* if (not self.validate_image(image_name, True)) or
\*    (not self.validate_image(self.arguments['--incremental'], True)): return -1
WharfieMainFirst ==
    /\ pc = "wm_first"
    /\ IF ~loc.valid
       THEN /\ loc' = [loc EXCEPT !.result = "-1"]
            /\ pc' = "wm_finally" /\ stack' = Tail(stack) /\ UNCHANGED exc
       ELSE /\ loc' = [loc EXCEPT !.image_name = args.prev_build,
                                  !.validate_incremental = TRUE]
            /\ Call("w_validate_image", "wm_last")
    /\ UNCHANGED <<args, peer, local0, docker, fs, dockerfile, verdicts, calls, exit_code>>

\* the last validation of "build": return -1 when it failed, else self.build(...)
WharfieMainLast ==
    /\ pc = "wm_last"
    /\ IF ~loc.valid
       THEN /\ loc' = [loc EXCEPT !.result = "-1"]
            /\ pc' = "wm_finally" /\ stack' = Tail(stack) /\ UNCHANGED exc
       ELSE /\ UNCHANGED loc
            /\ Call("w_build", "wm_end")
    /\ UNCHANGED <<args, peer, local0, docker, fs, dockerfile, verdicts, calls, exit_code>>

\* the try block of main ends normally
WharfieMainEnd ==
    /\ pc = "wm_end"
    /\ pc' = "wm_finally" /\ stack' = Tail(stack) /\ UNCHANGED exc
    /\ UNCHANGED <<args, peer, local0, loc, docker, fs, dockerfile, verdicts, calls, exit_code>>

\* finally: self.docker_client.close()
WharfieMainFinally ==
    /\ pc = "wm_finally"
    /\ Logged("close", NoneRef)
    /\ EndFinally("returned")
    /\ UNCHANGED <<args, peer, local0, loc, docker, fs, dockerfile, verdicts, exit_code>>

(***************************************************************************)
(* wharfie: validate_image                                                 *)
(***************************************************************************)
\* images = self.docker_client.images(image_name)
WharfieValidateImages ==
    /\ pc = "w_validate_image"
    /\ Looked(loc.image_name)
    /\ \/ /\ Did("images", loc.image_name, TRUE)
          /\ loc' = [loc EXCEPT !.listed = (Images(loc.image_name) # {})]
          /\ IF Images(loc.image_name) = {} THEN Goto("wv_pull") ELSE Goto("wv_inspect")
       \/ /\ Did("images", loc.image_name, FALSE)
          /\ Raise("APIError")
          /\ UNCHANGED loc
    /\ UNCHANGED <<args, peer, local0, local, made, containers, nextId, fs, dockerfile,
                   verdicts, exit_code>>

\* if images.__len__() == 0: self.docker_client.pull(image_name)
WharfieValidatePull ==
    /\ pc = "wv_pull"
    /\ \/ /\ local' = local \cup {loc.image_name}
          /\ Did("pull", loc.image_name, TRUE)
          /\ Goto("wv_inspect")
       \/ /\ UNCHANGED local
          /\ Did("pull", loc.image_name, TRUE)
          /\ Goto("wv_inspect")
       \/ /\ UNCHANGED local
          /\ Did("pull", loc.image_name, FALSE)
          /\ Raise("APIError")
    /\ UNCHANGED <<args, peer, local0, loc, made, image_cfg, containers, nextId, fs,
                   dockerfile, verdicts, exit_code>>

\* image = self.docker_client.inspect_image(images[0]['Id']): images is the
\* list made before the pull, and images[0] raises IndexError when it is
\* empty; an Entrypoint fails the image; else the try block is entered
WharfieValidateInspect ==
    /\ pc = "wv_inspect"
    /\ \/ /\ ~loc.listed
          /\ Raise("IndexError")
          /\ UNCHANGED <<loc, verdicts, calls>>
       \/ /\ loc.listed /\ CfgOf(loc.image_name).Entrypoint
          /\ Logged("inspect_image", loc.image_name)
          /\ loc' = [loc EXCEPT !.valid = FALSE]
          /\ verdicts' = Append(verdicts,
                 Verdict("wharfie", loc.image_name, loc.validate_incremental,
                         "entrypoint", FALSE))
          /\ Return
       \/ /\ loc.listed /\ ~CfgOf(loc.image_name).Entrypoint
          /\ Logged("inspect_image", loc.image_name)
          /\ pc' = "wv_create"
          /\ stack' = <<TryFrame("wv_except", {"APIError"})>> \o stack
          /\ UNCHANGED <<exc, loc, verdicts>>
       \/ /\ loc.listed
          /\ Did("inspect_image", loc.image_name, FALSE)
          /\ Raise("APIError")
          /\ UNCHANGED <<loc, verdicts>>
    /\ UNCHANGED <<args, peer, local0, docker, fs, dockerfile, exit_code>>

\* container = self.docker_client.create_container(image_name, command='/bin/true')
WharfieValidateCreate ==
    /\ pc = "wv_create"
    /\ \/ /\ Did("create_container", loc.image_name, TRUE)
          /\ containers' =
                 containers \cup {Container(nextId, loc.image_name, "/bin/true")}
          /\ nextId' = nextId + 1
          /\ loc' = [loc EXCEPT !.container_id = nextId]
          /\ Goto("wv_start")
       \/ /\ Raise("APIError")
          /\ Did("create_container", loc.image_name, FALSE)
          /\ UNCHANGED <<containers, nextId, loc>>
    /\ UNCHANGED <<args, peer, local0, local, made, image_cfg, fs, dockerfile, verdicts,
                   exit_code>>

\* self.docker_client.start(container_id)
WharfieValidateStart ==
    /\ pc = "wv_start"
    /\ \/ /\ Did("start", Named(loc.container_id), TRUE)
          /\ Goto("wv_wait")
       \/ /\ Did("start", Named(loc.container_id), FALSE)
          /\ Raise("APIError")
    /\ UNCHANGED <<args, peer, local0, loc, docker, fs, dockerfile, verdicts, exit_code>>

\* exitcode = self.docker_client.wait(container_id); for f in required_files:
\* if not self.check_file_exists(container_id, f): valid_image = False
WharfieValidateWait ==
    /\ pc = "wv_wait"
    /\ \/ /\ calls' = Append(calls, CallOf("wait", Named(loc.container_id), TRUE))
                          \o CopyCalls(CfgOf(loc.image_name).files,
                                       RequiredFiles(loc.validate_incremental))
          /\ loc' = [loc EXCEPT !.valid =
                 ValidateRequiredFiles(CfgOf(loc.image_name).files,
                     RequiredFiles(loc.validate_incremental))]
          /\ Goto("wv_remove")
       \/ /\ Did("wait", Named(loc.container_id), FALSE)
          /\ Raise("APIError")
          /\ UNCHANGED loc
    /\ UNCHANGED <<args, peer, local0, docker, fs, dockerfile, verdicts, exit_code>>

\* self.docker_client.remove_container(container_id); return valid_image
WharfieValidateRemove ==
    /\ pc = "wv_remove"
    /\ \/ /\ containers' = Removed(loc.container_id)
          /\ Did("remove_container", Named(loc.container_id), TRUE)
          /\ verdicts' = Append(verdicts,
                 Verdict("wharfie", loc.image_name, loc.validate_incremental,
                         "files", loc.valid))
          /\ pc' = stack[2].l /\ stack' = Tail(Tail(stack)) /\ UNCHANGED exc
       \/ /\ Raise("APIError")
          /\ Did("remove_container", Named(loc.container_id), FALSE)
          /\ UNCHANGED <<containers, verdicts>>
    /\ UNCHANGED <<args, peer, local0, loc, local, made, image_cfg, nextId, fs, dockerfile,
                   exit_code>>

\* except docker.APIError: return False
WharfieValidateExcept ==
    /\ pc = "wv_except"
    /\ loc' = [loc EXCEPT !.valid = FALSE]
    /\ verdicts' = Append(verdicts,
           Verdict("wharfie", loc.image_name, loc.validate_incremental,
                   "error", FALSE))
    /\ pc' = Head(stack).l /\ stack' = Tail(stack) /\ exc' = "none"
    /\ UNCHANGED <<args, peer, local0, docker, fs, dockerfile, calls, exit_code>>

(***************************************************************************)
(* wharfie: build                                                          *)
(***************************************************************************)
\* tmp_dir = tempfile.mkdtemp(); try: if incremental_image: os.mkdir(...)
WharfieBuild ==
    /\ pc = "w_build"
    /\ loc' = [loc EXCEPT !.build_dir = TempDir,
                          !.sa_image = args.prev_build,
                          !.sa_dir = Join(TempDir, "artifacts")]
    /\ fs' = fs \cup {TempDir}
                \cup (IF Truthy(args.prev_build)
                      THEN {Join(TempDir, "artifacts")} ELSE {})
    /\ pc' = IF Truthy(args.prev_build) THEN "wb_sa_create" ELSE "wb_copy"
    /\ stack' = <<TryFrame("wb_finally", Exceptions)>> \o stack
    /\ UNCHANGED <<args, peer, local0, exc, docker, dockerfile, verdicts, calls, exit_code>>

\* container = self.docker_client.create_container(incremental_image,
\*     ["/usr/bin/save-artifacts"], volumes={"/usr/artifacts": {}})
WharfieSaveCreate ==
    /\ pc = "wb_sa_create"
    /\ \/ /\ Did("create_container", loc.sa_image, TRUE)
          /\ containers' =
                 containers \cup {Container(nextId, loc.sa_image, SaveArtifacts)}
          /\ nextId' = nextId + 1
          /\ loc' = [loc EXCEPT !.sa_id = nextId]
          /\ Goto("wb_sa_start")
       \/ /\ Raise("APIError")
          /\ Did("create_container", loc.sa_image, FALSE)
          /\ UNCHANGED <<containers, nextId, loc>>
    /\ UNCHANGED <<args, peer, local0, local, made, image_cfg, fs, dockerfile, verdicts,
                   exit_code>>

\* self.docker_client.start(container_id, binds={artifact_tmp_dir: "/usr/artifacts"})
WharfieSaveStart ==
    /\ pc = "wb_sa_start"
    /\ \/ /\ Did("start", Named(loc.sa_id), TRUE)
          /\ Goto("wb_sa_wait")
       \/ /\ Did("start", Named(loc.sa_id), FALSE)
          /\ Raise("APIError")
    /\ UNCHANGED <<args, peer, local0, loc, docker, fs, dockerfile, verdicts, exit_code>>

\* exitcode = self.docker_client.wait(container_id)
WharfieSaveWait ==
    /\ pc = "wb_sa_wait"
    /\ \/ /\ Did("wait", Named(loc.sa_id), TRUE)
          /\ \E code \in {0, 1} :
                /\ loc' = [loc EXCEPT !.sa_exitcode = code]
                /\ fs' = IF code = 0 THEN fs \cup {Join(loc.sa_dir, "saved")} ELSE fs
          /\ Goto("wb_sa_logs")
       \/ /\ Raise("APIError")
          /\ Did("wait", Named(loc.sa_id), FALSE)
          /\ UNCHANGED <<loc, fs>>
    /\ UNCHANGED <<args, peer, local0, docker, dockerfile, verdicts, exit_code>>

\* self.logger.debug(self.docker_client.logs(container_id))
WharfieSaveLogs ==
    /\ pc = "wb_sa_logs"
    /\ \/ /\ Did("logs", Named(loc.sa_id), TRUE)
          /\ Goto("wb_sa_remove")
       \/ /\ Did("logs", Named(loc.sa_id), FALSE)
          /\ Raise("APIError")
    /\ UNCHANGED <<args, peer, local0, loc, docker, fs, dockerfile, verdicts, exit_code>>

\* self.docker_client.remove_container(container_id)
WharfieSaveRemove ==
    /\ pc = "wb_sa_remove"
    /\ \/ /\ containers' = Removed(loc.sa_id)
          /\ Did("remove_container", Named(loc.sa_id), TRUE)
          /\ Goto("wb_copy")
       \/ /\ Raise("APIError")
          /\ Did("remove_container", Named(loc.sa_id), FALSE)
          /\ UNCHANGED containers
    /\ UNCHANGED <<args, peer, local0, loc, local, made, image_cfg, nextId, fs, dockerfile,
                   verdicts, exit_code>>

\* shutil.copytree(source_dir, build_context_source)
WharfieCopy ==
    /\ pc = "wb_copy"
    /\ \/ /\ Did("copytree", args.source.path, TRUE)
          /\ fs' = fs \cup {Join(loc.build_dir, "src"),
                            Join(Join(loc.build_dir, "src"), "index.html")}
          /\ Goto("wb_write")
       \/ /\ Raise("OSError")
          /\ Did("copytree", args.source.path, FALSE)
          /\ UNCHANGED fs
    /\ UNCHANGED <<args, peer, local0, loc, docker, dockerfile, verdicts, exit_code>>

\* with open(os.path.join(tmp_dir, 'Dockerfile'), 'w+') as docker_file: ...
WharfieWrite ==
    /\ pc = "wb_write"
    /\ fs' = fs \cup {Join(loc.build_dir, "Dockerfile")}
    /\ dockerfile' =
           DockerfileLines(args.image, args.env_str, Truthy(args.prev_build))
    /\ IF HasMalformed(args.env_str) THEN Raise("IndexError") ELSE Goto("wb_docker_build")
    /\ UNCHANGED <<args, peer, local0, loc, docker, verdicts, calls, exit_code>>

\* img, logs = self.docker_client.build(tag=tag, path=tmp_dir, rm=True); the
\* result is logged and the try block ends normally
WharfieDockerBuild ==
    /\ pc = "wb_docker_build"
    /\ \/ /\ loc' = [loc EXCEPT !.img = "sha256:new",
                                !.report = Reported("sha256:new")]
          /\ Did("build", args.app_image, TRUE)
          /\ local' = local \cup ({args.app_image} \ {NoneRef})
          /\ made' = made \cup ({args.app_image} \ {NoneRef})
          /\ pc' = "wb_finally" /\ stack' = Tail(stack) /\ UNCHANGED exc
       \/ /\ loc' = [loc EXCEPT !.img = NoneRef, !.report = Reported(NoneRef)]
          /\ Did("build", args.app_image, TRUE)
          /\ UNCHANGED <<local, made>>
          /\ pc' = "wb_finally" /\ stack' = Tail(stack) /\ UNCHANGED exc
       \/ /\ Raise("APIError")
          /\ Did("build", args.app_image, FALSE)
          /\ UNCHANGED <<loc, local, made>>
    /\ UNCHANGED <<args, peer, local0, image_cfg, containers, nextId, fs, dockerfile,
                   verdicts, exit_code>>

\* finally: shutil.rmtree(tmp_dir)
WharfieBuildFinally ==
    /\ pc = "wb_finally"
    /\ fs' = RmTree(fs, loc.build_dir)
    /\ IF exc # "none" THEN Raise(exc) ELSE Return
    /\ UNCHANGED <<args, peer, local0, loc, docker, dockerfile, verdicts, calls, exit_code>>

(***************************************************************************)
(* The program                                                             *)
(***************************************************************************)
Next ==
    \/ StiMain \/ StiMainIsLocal \/ StiMainDispatch \/ MainEnd \/ MainFinally
    \/ ProcessExit
    \/ PullImageCheck \/ PullImagePull
    \/ ValidateImagesLoop \/ ValidateImagesCreate \/ CreateContainerCreate
    \/ CreateContainerStart \/ CreateContainerWait \/ CreateContainerExcept
    \/ ValidateImagesCreated \/ ValidateImageImages \/ ValidateImageInspect
    \/ ValidateImagesRemove
    \/ SaveArtifactsCreate \/ SaveArtifactsStart \/ SaveArtifactsWait
    \/ SaveArtifactsLogs \/ SaveArtifactsRemove
    \/ PrepareSourceDir
    \/ BuildDeployableImageWrite \/ BuildDeployableImageBuild
    \/ Build \/ BuildSource \/ BuildImage \/ BuildResult \/ BuildFinally
    \/ ExtendedBuild \/ ExtendedSave \/ ExtendedSource \/ ExtendedCreate
    \/ ExtendedStart \/ ExtendedWait \/ ExtendedLogs \/ ExtendedResult
    \/ ExtendedCommit \/ ExtendedTag \/ ExtendedFinally \/ ExtendedRmTree
    \/ WharfieMain \/ WharfieMainFirst \/ WharfieMainLast \/ WharfieMainEnd
    \/ WharfieMainFinally
    \/ WharfieValidateImages \/ WharfieValidatePull \/ WharfieValidateInspect
    \/ WharfieValidateCreate \/ WharfieValidateStart \/ WharfieValidateWait
    \/ WharfieValidateRemove \/ WharfieValidateExcept
    \/ WharfieBuild \/ WharfieSaveCreate \/ WharfieSaveStart \/ WharfieSaveWait
    \/ WharfieSaveLogs \/ WharfieSaveRemove \/ WharfieCopy \/ WharfieWrite
    \/ WharfieDockerBuild \/ WharfieBuildFinally

Spec == Init /\ [][Next]_vars

(***************************************************************************)
(* Two runs against the same runtime                                       *)
(***************************************************************************)
\* The second run is "sti build ./peer builder TAG": a build on one image,
\* without --clean, --dir and -e.  It goes through the same code as the first
\* one, with its own variables (peer), its own directory from
\* tempfile.mkdtemp() and the containers the runtime gives it; the runtime
\* (local, containers, nextId) and the file system (fs) are the ones the
\* first run uses.  The calls of one function that touch nothing the other
\* run can see are taken in one step.

\* tempfile.mkdtemp() of the second run: a fresh directory again
PeerDir == <<"tmp.peer">>
\* APP_IMAGE_TAG of the second run
PeerTags == {"app-build", "peer"}

\* The tags a run writes: APP_IMAGE_TAG, and with a runtime image also
\* APP_IMAGE_TAG-build.
OutputTags(a) ==
    {a.app_image}
        \cup (IF Truthy(a.runtime_image) THEN {AppBuildTag(a.app_image)} ELSE {})

\* main, to the dispatch: pull_image(app_image) and then
\* is_incremental = self.is_image_in_local_registry(app_image)
PeerMain ==
    /\ peer.pc = "main"
    /\ \/ /\ peer.tag \in local
          /\ peer' = [peer EXCEPT !.pc = "m_islocal"]
          /\ UNCHANGED local
       \/ /\ peer.tag \notin local
          /\ \/ /\ local' = local \cup {peer.tag}
                /\ peer' = [peer EXCEPT !.pc = "m_islocal", !.pulled = TRUE]
             \/ /\ UNCHANGED local
                /\ peer' = [peer EXCEPT !.pc = "m_islocal", !.pulled = TRUE]
             \/ /\ UNCHANGED local
                /\ peer' = [peer EXCEPT !.pc = "exit"]
    /\ UNCHANGED <<args, local0, ctl, loc, made, image_cfg, containers, nextId,
                   fs, dockerfile, verdicts, calls, exit_code>>

PeerMainIsLocal ==
    /\ peer.pc = "m_islocal"
    /\ \/ peer' = [peer EXCEPT !.pc = "build",
                               !.is_incremental = (Images(peer.tag) # {})]
       \/ peer' = [peer EXCEPT !.pc = "exit"]
    /\ UNCHANGED <<args, local0, ctl, loc, docker, fs, dockerfile, verdicts,
                   calls, exit_code>>

\* build: build_dir = working_dir or tempfile.mkdtemp(), and in an
\* incremental build os.mkdir(artifact_tmp_dir)
PeerBuild ==
    /\ peer.pc = "build"
    /\ IF peer.is_incremental
       THEN /\ fs' = fs \cup {PeerDir, Join(PeerDir, "artifacts")}
            /\ peer' = [peer EXCEPT !.pc = "save_artifacts"]
       ELSE /\ fs' = fs \cup {PeerDir}
            /\ peer' = [peer EXCEPT !.pc = "b_src"]
    /\ UNCHANGED <<args, local0, ctl, loc, docker, dockerfile, verdicts, calls,
                   exit_code>>

\* save_artifacts: create_container
PeerSaveArtifactsCreate ==
    /\ peer.pc = "save_artifacts"
    /\ \/ /\ Images(peer.tag) # {}
          /\ containers' =
                 containers \cup {Container(nextId, peer.tag, SaveArtifacts)}
          /\ nextId' = nextId + 1
          /\ peer' = [peer EXCEPT !.pc = "sa_start", !.container_id = nextId]
       \/ /\ peer' = [peer EXCEPT !.pc = "b_finally"]
          /\ UNCHANGED <<containers, nextId>>
    /\ UNCHANGED <<args, local0, ctl, loc, local, made, image_cfg, fs,
                   dockerfile, verdicts, calls, exit_code>>

\* save_artifacts: start, wait and logs
PeerSaveArtifactsRun ==
    /\ peer.pc = "sa_start"
    /\ \/ /\ peer' = [peer EXCEPT !.pc = "sa_remove"]
          /\ \E code \in {0, 1} :
                fs' = IF code = 0
                      THEN fs \cup {Join(Join(PeerDir, "artifacts"), "saved")}
                      ELSE fs
       \/ /\ peer' = [peer EXCEPT !.pc = "b_finally"]
          /\ UNCHANGED fs
    /\ UNCHANGED <<args, local0, ctl, loc, docker, dockerfile, verdicts, calls,
                   exit_code>>

\* save_artifacts: remove_container
PeerSaveArtifactsRemove ==
    /\ peer.pc = "sa_remove"
    /\ \/ /\ containers' = Removed(peer.container_id)
          /\ peer' = [peer EXCEPT !.pc = "b_src"]
       \/ /\ peer' = [peer EXCEPT !.pc = "b_finally"]
          /\ UNCHANGED containers
    /\ UNCHANGED <<args, local0, ctl, loc, local, made, image_cfg, nextId, fs,
                   dockerfile, verdicts, calls, exit_code>>

\* prepare_source_dir on a path: shutil.copytree
PeerBuildSource ==
    /\ peer.pc = "b_src"
    /\ \/ /\ fs' = fs \cup {Join(PeerDir, "src")}
          /\ peer' = [peer EXCEPT !.pc = "b_image"]
       \/ /\ peer' = [peer EXCEPT !.pc = "b_finally"]
          /\ UNCHANGED fs
    /\ UNCHANGED <<args, local0, ctl, loc, docker, dockerfile, verdicts, calls,
                   exit_code>>

\* build_deployable_image: the Dockerfile and docker_client.build(tag=tag, ..),
\* which gives an image under the tag, or None, or fails
PeerBuildImage ==
    /\ peer.pc = "b_image"
    /\ fs' = fs \cup {Join(PeerDir, "Dockerfile")}
    /\ \/ local' = local \cup {peer.tag}
       \/ UNCHANGED local
    /\ peer' = [peer EXCEPT !.pc = "b_finally"]
    /\ UNCHANGED <<args, local0, ctl, loc, made, image_cfg, containers, nextId,
                   dockerfile, verdicts, calls, exit_code>>

\* finally: if not working_dir: shutil.rmtree(build_dir); then main's finally
\* and the end of the process
PeerBuildFinally ==
    /\ peer.pc = "b_finally"
    /\ fs' = RmTree(fs, PeerDir)
    /\ peer' = [peer EXCEPT !.pc = "exit"]
    /\ UNCHANGED <<args, local0, ctl, loc, docker, dockerfile, verdicts, calls,
                   exit_code>>

\* Both runs are builds without --dir (and without -e); the registry holds any
\* of the images the two look for.
InitTwoRuns ==
    /\ args \in {a \in StiBuildArgs : a.working_dir = NoDir /\ a.env_str = <<>>}
    /\ pc = "main"
    /\ stack = <<>>
    /\ exc = "none"
    /\ loc = InitLoc
    /\ peer \in {PeerAt("main", tag) : tag \in PeerTags}
    /\ local \in SUBSET ({PriorImage(args), peer.tag})
    /\ local0 = local
    /\ made = {}
    /\ image_cfg = {}
    /\ containers = {}
    /\ nextId = 1
    /\ fs = {}
    /\ dockerfile = <<>>
    /\ verdicts = <<>>
    /\ calls = <<>>
    /\ exit_code = Running

NextTwoRuns ==
    \/ StiMain \/ StiMainIsLocal \/ StiMainDispatch \/ MainEnd \/ MainFinally
    \/ ProcessExit
    \/ PullImageCheck \/ PullImagePull
    \/ SaveArtifactsCreate \/ SaveArtifactsStart \/ SaveArtifactsWait
    \/ SaveArtifactsLogs \/ SaveArtifactsRemove
    \/ PrepareSourceDir
    \/ BuildDeployableImageWrite \/ BuildDeployableImageBuild
    \/ Build \/ BuildSource \/ BuildImage \/ BuildResult \/ BuildFinally
    \/ ExtendedBuild \/ ExtendedSave \/ ExtendedSource \/ ExtendedCreate
    \/ ExtendedStart \/ ExtendedWait \/ ExtendedLogs \/ ExtendedResult
    \/ ExtendedCommit \/ ExtendedTag \/ ExtendedFinally \/ ExtendedRmTree
    \/ PeerMain \/ PeerMainIsLocal \/ PeerBuild
    \/ PeerSaveArtifactsCreate \/ PeerSaveArtifactsRun
    \/ PeerSaveArtifactsRemove
    \/ PeerBuildSource \/ PeerBuildImage \/ PeerBuildFinally

SpecTwoRuns == InitTwoRuns /\ [][NextTwoRuns]_vars

(***************************************************************************)
(* Properties                                                              *)
(***************************************************************************)
Ended == pc = "exit"
Direct == args.prog = "sti" /\ args.cmd = "build" /\ ~Truthy(args.runtime_image)
Extended == args.prog = "sti" /\ args.cmd = "build" /\ Truthy(args.runtime_image)

CallsOf(op) == {i \in DOMAIN calls : calls[i].op = op}
SourceOps == {"git clone", "copytree"}
ArtifactsLine == Line("ADD", "./artifacts", "/usr/artifacts/")

\* C1: the exit status is 0 after a build or validate that succeeded, and is
\* not 0 when validate_images returned False or the runtime's build gave no
\* image.
C1_ExitStatusTellsOutcome ==
    Ended =>
        /\ (loc.result = "False" \/ loc.img = NoneRef) => exit_code # <<0>>
        /\ (exc = "none" /\ loc.result # "False" /\ loc.img # NoneRef)
               => exit_code = <<0>>

\* C2: after a run without --dir, however it went, nothing of the temporary
\* build directory exists any more.
C2_NoTempDirAfterRun ==
    (Ended /\ args.working_dir = NoDir) => \A p \in fs : ~IsUnder(p, TempDir)

\* the steps of artifact extraction that follow the creation of its container
SaveSteps ==
    {"sa_start", "sa_wait", "sa_logs", "sa_remove",
     "wb_sa_start", "wb_sa_wait", "wb_sa_logs", "wb_sa_remove"}

\* C3: once artifact extraction is over, however it ended, its
\* save-artifacts container does not exist in the runtime.
C3_SaveContainerRemoved == pc \notin SaveSteps => Live(SaveArtifacts) = {}

\* the steps of the validation of one image that follow the creation of its
\* probe container
ProbeSteps ==
    {"cc_start", "cc_wait", "cc_except", "vi_created", "validate_image",
     "vim_inspect", "vi_remove", "wv_start", "wv_wait", "wv_remove", "wv_except"}

\* C4: once the validation of an image is over, however it ended, its probe
\* container does not exist in the runtime.
C4_ProbeContainerRemoved == pc \notin ProbeSteps => Live("/bin/true") = {}

\* extended_build has returned or has let an exception out
ExtendedOver ==
    Extended /\ pc \in {"m_end", "m_finally", "returned", "uncaught", "exit"}

RemovalsOf(id) ==
    {i \in CallsOf("remove_container") : calls[i].arg = Named(id)}

\* C5: when extended_build is over and it had got the id of its build
\* container, it has asked the runtime exactly once to remove that container,
\* on every path, and the container is gone unless the runtime refused; when
\* it got no id, it asked for no removal of a build container.
C5_BuildContainerRemoved ==
    ExtendedOver =>
        IF loc.build_container_id # NoId
        THEN /\ Cardinality(RemovalsOf(loc.build_container_id)) = 1
             /\ \A i \in RemovalsOf(loc.build_container_id) :
                    calls[i].ok => Live(Prepare) = {}
        ELSE /\ Live(Prepare) = {}
             /\ \A i \in CallsOf("remove_container") :
                    loc.sa_id # NoId /\ calls[i].arg = Named(loc.sa_id)

\* C5 happens: an extended build failed after its build container was made
\* (start, wait, prepare, the runtime's build, commit or tag), and the
\* container is gone at the end.
C5_Witness ==
    /\ Ended /\ Extended /\ exc # "none"
    /\ loc.build_container_id # NoId
    /\ ~IsLive(loc.build_container_id)

\* C6: with --dir, no step of a run deletes anything: the directory and what
\* was put into it stay.
C6_WorkingDirKept == [][args.working_dir # NoDir => fs \subseteq fs']_vars

\* C6 happens: a run with --dir has ended and the build context is in the
\* directory.
C6_Witness ==
    /\ Ended /\ args.working_dir # NoDir
    /\ \E p \in fs : IsUnder(p, args.working_dir) /\ p[Len(p)] = "Dockerfile"

\* C7: source is acquired, a save-artifacts or build container is created,
\* and the runtime's build is called only after the images were validated,
\* and never after a validation failed.
C7_ValidatedBeforeSource ==
    (\/ \E i \in DOMAIN calls : calls[i].op \in SourceOps \cup {"build"}
     \/ pc \in {"sa_start", "wb_sa_start", "e_start"})
        => /\ verdicts # <<>>
           /\ \A i \in DOMAIN verdicts : verdicts[i].result

\* C8: after a clone that exited with another status than 0, no container is
\* created, the runtime's build is not called, and the run ends in failure.
C8_CloneFailureAborts ==
    \A i \in CallsOf("git clone") :
        ~calls[i].ok =>
            /\ \A j \in DOMAIN calls :
                   j > i => calls[j].op \notin {"create_container", "build"}
            /\ Ended => exit_code # <<0>>

\* what the specification asks of an image
MeetsRequirements(v) ==
    /\ ~v.Entrypoint
    /\ Prepare \in v.files
    /\ Run \in v.files
    /\ v.incremental => SaveArtifacts \in v.files

\* C9: a validation returns true only for an image without Entrypoint that
\* holds prepare, run and, when incremental builds are asked for,
\* save-artifacts; and a validation that looked at the image (no call of its
\* probe failed) returns true for every such image.
C9_ValidateVerdict ==
    \A i \in DOMAIN verdicts :
        /\ verdicts[i].result => MeetsRequirements(verdicts[i])
        /\ verdicts[i].via \in {"entrypoint", "files"}
               => (verdicts[i].result <=> MeetsRequirements(verdicts[i]))

\* C9 happens: an image with an Entrypoint and all scripts was refused, or
\* an image without prepare was refused, after an image without
\* save-artifacts had passed a validation that did not ask for it.
C9_Witness ==
    /\ Len(verdicts) = 2
    /\ verdicts[1].result /\ SaveArtifacts \notin verdicts[1].files
    /\ ~verdicts[2].result
    /\ \/ verdicts[2].Entrypoint /\ verdicts[2].files = Scripts
       \/ ~verdicts[2].Entrypoint /\ verdicts[2].files = Scripts \ {Prepare}

\* C10: with --clean the build is not incremental: the previous image is not
\* looked for or pulled, no container is created from it to save artifacts,
\* and the Dockerfile does not add artifacts.
C10_CleanIsNotIncremental ==
    args.clean =>
        /\ ~loc.is_incremental
        /\ \A i \in DOMAIN calls :
               calls[i].op \in {"images", "pull", "create_container"}
                   => calls[i].arg # PriorImage(args)
        /\ \A c \in containers : c.command # SaveArtifacts
        /\ \A k \in DOMAIN dockerfile : dockerfile[k] # ArtifactsLine

\* C10 happens: a --clean build whose previous image exists has written its
\* Dockerfile and is about to call the runtime's build.
C10_Witness ==
    /\ args.clean /\ PriorImage(args) \in local
    /\ pc = "bdi_build" /\ dockerfile # <<>>

\* the steps of sti's build between the incremental check and the runtime's
\* build
DirectBeforeBuild ==
    {"m_dispatch", "build", "save_artifacts", "sa_start", "sa_wait", "sa_logs",
     "sa_remove", "b_src", "prepare_source_dir", "b_image",
     "build_deployable_image", "bdi_build"}

\* the steps of sti's build that follow artifact extraction
DirectAfterSave ==
    {"b_src", "prepare_source_dir", "b_image", "build_deployable_image",
     "bdi_build", "b_result"}

\* the call i was made on the save-artifacts container and went well, after
\* call j and before call k
SaveCallBetween(op, j, k) ==
    \E i \in CallsOf(op) :
        j < i /\ i < k /\ calls[i].ok /\ calls[i].arg = Named(loc.sa_id)

\* C11: in a direct build without --clean, artifacts are saved from the
\* image of the output tag exactly when that image is in the local registry
\* after the pull; then the save-artifacts container is started, waited for
\* and removed before the runtime's build is called and the Dockerfile adds
\* the artifacts; otherwise no container is created and the Dockerfile does
\* not add them.
C11_IncrementalDirect ==
    (Direct /\ ~args.clean) =>
        /\ (pc \in DirectBeforeBuild)
               => (loc.is_incremental <=> args.app_image \in local)
        /\ \A i \in CallsOf("create_container") :
               loc.is_incremental /\ calls[i].arg = args.app_image
        /\ (pc \in DirectAfterSave)
               => (loc.is_incremental <=> CallsOf("create_container") # {})
        /\ \A k \in CallsOf("build") :
               IF loc.is_incremental
               THEN /\ \E c \in CallsOf("create_container") :
                          /\ calls[c].ok
                          /\ SaveCallBetween("start", c, k)
                          /\ SaveCallBetween("wait", c, k)
                          /\ SaveCallBetween("remove_container", c, k)
                    /\ Live(SaveArtifacts) = {}
                    /\ Len(dockerfile) >= 3 /\ dockerfile[3] = ArtifactsLine
               ELSE /\ CallsOf("create_container") = {}
                    /\ \A n \in DOMAIN dockerfile : dockerfile[n] # ArtifactsLine

\* C11 happens: a direct build without --clean found the previous image,
\* saved its artifacts, built the new image and ended.
C11_Witness ==
    /\ Ended /\ Direct /\ ~args.clean
    /\ loc.is_incremental /\ loc.sa_id # NoId
    /\ loc.img = "sha256:new"
    /\ ArtifactsLine \in {dockerfile[n] : n \in DOMAIN dockerfile}

\* the steps of extended_build between the incremental check and the tagging
\* of the committed build container
ExtendedBeforeTag ==
    {"m_dispatch", "extended_build", "e_save", "save_artifacts", "sa_start",
     "sa_wait", "sa_logs", "sa_remove", "e_src", "prepare_source_dir",
     "e_create", "e_start", "e_wait", "e_logs", "build_deployable_image",
     "bdi_build", "e_result", "e_commit", "e_tag"}

\* an extended build has ended, nothing was raised and the runtime built the
\* image
ExtendedSucceeded ==
    Ended /\ Extended /\ exc = "none" /\ loc.img = "sha256:new"

\* C12: after an extended build that succeeded, the tag <app-tag>-build names
\* an image of the local registry that this run made by committing its build
\* container and tagging the commit, both before the container was removed;
\* and an extended build without --clean that finds <app-tag>-build in the
\* local registry has created, started and waited for a save-artifacts
\* container of that image before it starts its build container.
C12_BuildImageKeptForNextRun ==
    /\ ExtendedSucceeded =>
           /\ AppBuildTag(args.app_image) \in local \cap made
           /\ loc.commit_id = "sha256:commit"
           /\ \E c \in CallsOf("commit"), g \in CallsOf("tag") :
                  /\ calls[c] = CallOf("commit", Named(loc.build_container_id), TRUE)
                  /\ calls[g] = CallOf("tag", AppBuildTag(args.app_image), TRUE)
                  /\ c < g
                  /\ \A r \in RemovalsOf(loc.build_container_id) : g < r
    /\ Extended =>
           /\ (pc \in ExtendedBeforeTag)
                  => (loc.is_incremental
                         <=> (~args.clean /\ AppBuildTag(args.app_image) \in local))
           /\ (loc.is_incremental /\ loc.build_container_id # NoId) =>
                  \A i \in CallsOf("start") :
                      calls[i].arg = Named(loc.build_container_id) =>
                          \E c \in CallsOf("create_container") :
                              /\ calls[c] = CallOf("create_container",
                                                  AppBuildTag(args.app_image), TRUE)
                              /\ SaveCallBetween("start", c, i)
                              /\ SaveCallBetween("wait", c, i)

\* C12 happens: an extended build that found <app-tag>-build saved its
\* artifacts, succeeded, and left a new <app-tag>-build.
C12_Witness ==
    /\ ExtendedSucceeded /\ loc.is_incremental
    /\ loc.sa_id # NoId /\ loc.build_container_id # NoId
    /\ AppBuildTag(args.app_image) \in made

\* an -e entry as the specification reads it: the name is what stands before
\* the first "=", the value all that follows it
HasEquals(env) == \E i \in 1..Len(env) : env[i] = "="
FirstEquals(env) ==
    CHOOSE i \in 1..Len(env) : env[i] = "=" /\ \A j \in 1..(i - 1) : env[j] # "="
NameOf(env) == Text(SubSeq(env, 1, FirstEquals(env) - 1))
ValueOf(env) == Text(SubSeq(env, FirstEquals(env) + 1, Len(env)))
AllHaveEquals(env_str) == \A i \in 1..Len(env_str) : HasEquals(env_str[i])

\* the Dockerfile is written to its end and the runtime's build is next or
\* has been called
DescriptorComplete ==
    /\ dockerfile # <<>>
    /\ \/ pc \in {"bdi_build", "wb_docker_build"}
       \/ CallsOf("build") # {}

\* what the generation was told about artifacts, and the base image it was
\* given
HasArtifacts ==
    IF args.prog = "wharfie" THEN Truthy(args.prev_build) ELSE loc.bdi_incremental
BaseImage == IF args.prog = "wharfie" THEN args.image ELSE loc.bdi_image

\* C13: a Dockerfile written to its end has FROM first, ADD ./src second,
\* ADD ./artifacts third exactly when artifacts are present, then one ENV
\* line for each -e entry in the order given, duplicates kept, then
\* RUN /usr/bin/prepare, then CMD /usr/bin/run last; without artifacts and
\* entries it has four lines.
C13_DescriptorOrder ==
    DescriptorComplete =>
        LET n == Len(args.env_str)
            k == IF HasArtifacts THEN 3 ELSE 2
        IN  /\ Len(dockerfile) = k + n + 2
            /\ dockerfile[1] = Line("FROM", BaseImage, "")
            /\ dockerfile[2] = Line("ADD", "./src", "/usr/src/")
            /\ HasArtifacts => dockerfile[3] = ArtifactsLine
            /\ ~HasArtifacts => \A i \in DOMAIN dockerfile : dockerfile[i] # ArtifactsLine
            /\ \A i \in 1..n :
                   /\ dockerfile[k + i].op = "ENV"
                   /\ dockerfile[k + i].a = NameOf(args.env_str[i])
            /\ dockerfile[k + n + 1] = Line("RUN", "/usr/bin/prepare", "")
            /\ dockerfile[k + n + 2] = Line("CMD", "/usr/bin/run", "")
            /\ (~HasArtifacts /\ n = 0) => Len(dockerfile) = 4

\* C13 happens: a Dockerfile with artifacts and two different entries is
\* written.
C13_Witness ==
    /\ DescriptorComplete /\ HasArtifacts
    /\ Len(args.env_str) = 2 /\ args.env_str[1] # args.env_str[2]

\* C14: the ENV line of an entry NAME=VALUE carries as NAME what stands
\* before the first "=" and as VALUE all that follows the first "=", further
\* "=" included.
C14_SplitOnFirstEquals ==
    (DescriptorComplete /\ AllHaveEquals(args.env_str)) =>
        LET k == IF HasArtifacts THEN 3 ELSE 2
        IN  \A i \in 1..Len(args.env_str) :
                dockerfile[k + i] =
                    Line("ENV", NameOf(args.env_str[i]), ValueOf(args.env_str[i]))

\* the ENV lines of the Dockerfile
EnvSteps == {i \in DOMAIN dockerfile : dockerfile[i].op = "ENV"}

\* the entries that stand before the first one without "="
WellFormedPrefix(env_str) ==
    {i \in 1..Len(env_str) : \A j \in 1..i : HasEquals(env_str[j])}

\* C15: when an -e entry has no "=", the writing of the Dockerfile fails: the
\* Dockerfile has no ENV line for that entry and does not reach its RUN line,
\* the runtime's build is never called, and the run ends in failure, the
\* temporary directory removed (in the extended build unless the runtime
\* refused to remove the build container).
C15_MalformedEnvFails ==
    (args.cmd = "build" /\ ~AllHaveEquals(args.env_str)) =>
        /\ CallsOf("build") = {}
        /\ pc \notin {"bdi_build", "wb_docker_build"}
        /\ Cardinality(EnvSteps) = Cardinality(WellFormedPrefix(args.env_str))
        /\ \A i \in DOMAIN dockerfile : dockerfile[i].op \notin {"RUN", "CMD"}
        /\ (Ended /\ dockerfile # <<>>) =>
               /\ exit_code # <<0>>
               /\ exc = "IndexError" =>
                      (args.working_dir = NoDir => \A p \in fs : ~IsUnder(p, TempDir))

\* C15 happens: a build whose only entry has no "=" wrote the start of its
\* Dockerfile and ended.
C15_Witness ==
    /\ Ended /\ args.cmd = "build" /\ ~AllHaveEquals(args.env_str)
    /\ dockerfile # <<>> /\ exc = "IndexError"

\* C16: a save-artifacts container or a build container is created only
\* after the source was acquired, and a run whose source could not be
\* acquired has created neither.
C16_NoContainerBeforeSource ==
    /\ (pc \in {"sa_start", "wb_sa_start", "e_start"})
           => \E i \in DOMAIN calls : calls[i].op \in SourceOps /\ calls[i].ok
    /\ (\E i \in DOMAIN calls : calls[i].op \in SourceOps /\ ~calls[i].ok)
           => Cardinality({i \in CallsOf("create_container") : calls[i].ok})
                  = Len(verdicts)

\* C17: in an sti build, a pull of the previous image that failed raises
\* nothing: the run goes on to look the image up and to build without it.
C17_PullFailureNotFatal ==
    (args.prog = "sti" /\ args.cmd = "build") =>
        \A i \in CallsOf("pull") :
            (calls[i].arg = PriorImage(args) /\ ~calls[i].ok) =>
                /\ i = Len(calls) => (exc = "none" /\ pc = "m_islocal")
                /\ Ended => \E j \in CallsOf("images") : j > i

\* C18: when save-artifacts exited with another status than 0, nothing is
\* raised and the run goes on with the logs of the container; a run that then
\* ends without an exception has acquired the source and called the runtime's
\* build after it, with the artifacts added by the Dockerfile in a direct
\* build.
C18_SaveExitCodeIgnored ==
    loc.sa_exitcode # 0 =>
        /\ calls[Len(calls)] = CallOf("wait", Named(loc.sa_id), TRUE)
               => (exc = "none" /\ pc \in {"sa_logs", "wb_sa_logs"})
        /\ (Ended /\ exc = "none") =>
               /\ \E w \in CallsOf("wait"), s \in DOMAIN calls, b \in CallsOf("build") :
                      /\ calls[w].arg = Named(loc.sa_id)
                      /\ calls[s].op \in SourceOps
                      /\ w < s /\ s < b
               /\ ~Extended => ArtifactsLine \in {dockerfile[n] : n \in DOMAIN dockerfile}

\* C18 happens: save-artifacts exited with 1 and the build went on to a new
\* image and exit status 0.
C18_Witness ==
    /\ Ended /\ loc.sa_exitcode = 1
    /\ loc.img = "sha256:new" /\ exit_code = <<0>>

\* the images a run has to validate, in the order of their validation
Requirements ==
    IF args.prog = "sti" /\ args.cmd = "validate"
    THEN [i \in DOMAIN Validations(args) |-> Validations(args)[i].image_name]
    ELSE IF args.prog = "wharfie" /\ args.cmd = "build"
    THEN IF Truthy(args.prev_build) THEN <<args.image, args.prev_build>>
         ELSE <<args.image>>
    ELSE <<>>

\* C19: the requirements are validated in their order and the first that
\* fails ends the validation with False: the image of a later requirement is
\* pulled, listed, probed with a container or inspected only after every
\* earlier requirement passed.
C19_ValidationStopsAtFirstFailure ==
    /\ \A r \in DOMAIN Requirements, i \in DOMAIN calls :
           (r > 1 /\ calls[i].arg = Requirements[r]) =>
               /\ Len(verdicts) >= r - 1
               /\ \A q \in 1..(r - 1) :
                      verdicts[q].image = Requirements[q] /\ verdicts[q].result
    /\ \A q \in DOMAIN verdicts :
           (Requirements # <<>> /\ ~verdicts[q].result) =>
               /\ q = Len(verdicts)
               /\ (Ended /\ exc = "none") => loc.result \in {"False", "-1"}
               /\ Cardinality(CallsOf("create_container")) <= q

\* C19 happens: of two requirements the first failed, and the validation
\* returned False.
C19_Witness ==
    /\ Ended /\ Len(Requirements) = 2
    /\ Len(verdicts) = 1 /\ ~verdicts[1].result
    /\ loc.result \in {"False", "-1"}

\* C20: a run calls the runtime's build at most once; when the call returned
\* no image the run reports that the build failed and never that an image
\* was built, and an extended build neither commits its build container nor
\* tags <app-tag>-build.
C20_OneBuildCall ==
    /\ Cardinality(CallsOf("build")) <= 1
    /\ loc.img = NoneRef =>
           /\ loc.report # "built"
           /\ Ended => loc.report = "failed"
           /\ CallsOf("commit") = {} /\ CallsOf("tag") = {}
           /\ loc.commit_id = NoneRef
           /\ Extended => AppBuildTag(args.app_image) \notin made

\* C20 happens: the runtime's build of an extended build returned no image
\* and the run ended.
C20_Witness ==
    /\ Ended /\ Extended /\ loc.img = NoneRef
    /\ loc.build_container_id # NoId /\ loc.report = "failed"

\* C21: when prepare exited with another code than 0 in the build container
\* of an extended build, or the start of or the wait for that container
\* failed, the runtime's build is not called, nothing is committed or tagged,
\* and the run ends in failure after its cleanup: the removal of the build
\* container was asked for once and, unless the runtime refused it, the
\* container is gone and so is the temporary directory; a directory given
\* with --dir stays.
C21_BuildContainerFailure ==
    (/\ Extended /\ loc.build_container_id # NoId
     /\ \/ loc.exitcode # 0
        \/ \E i \in CallsOf("start") \cup CallsOf("wait") :
               calls[i].arg = Named(loc.build_container_id) /\ ~calls[i].ok)
        => /\ CallsOf("build") = {} /\ CallsOf("commit") = {} /\ CallsOf("tag") = {}
           /\ made = {}
           /\ pc \notin {"build_deployable_image", "bdi_build", "e_result",
                          "e_commit", "e_tag"}
           /\ Ended =>
                  /\ exit_code # <<0>>
                  /\ Cardinality(RemovalsOf(loc.build_container_id)) = 1
                  /\ \A r \in RemovalsOf(loc.build_container_id) :
                         calls[r].ok =>
                             /\ ~IsLive(loc.build_container_id)
                             /\ args.working_dir = NoDir
                                    => \A p \in fs : ~IsUnder(p, TempDir)
                  /\ args.working_dir # NoDir => args.working_dir \in fs

\* C21 happens: prepare exited with 1, the build container and the temporary
\* directory were removed and the run ended.
C21_Witness ==
    /\ Ended /\ Extended /\ loc.exitcode = 1 /\ args.working_dir = NoDir
    /\ ~IsLive(loc.build_container_id)
    /\ \A p \in fs : ~IsUnder(p, TempDir)

\* C22: when the removal of the build container fails in the cleanup of an
\* extended build, the cleanup goes on and the failure is not escalated: the
\* temporary directory is removed, and a run whose build was reported as
\* done ends without an exception and with exit status 0.
C22_CleanupErrorsNotEscalated ==
    (/\ Ended /\ Extended
     /\ \E r \in RemovalsOf(loc.build_container_id) : ~calls[r].ok)
        => /\ args.working_dir = NoDir => \A p \in fs : ~IsUnder(p, TempDir)
           /\ loc.report = "built" => (exc = "none" /\ exit_code = <<0>>)

\* C23: every call that lists images, pulls, creates a container or tags is
\* given a reference that is not empty and that the invocation supplied, or
\* the supplied output tag with "-build" appended, in builds and in
\* validations alike.
C23_ImageRefsNonEmpty ==
    \A i \in DOMAIN calls :
        calls[i].op \in {"images", "pull", "create_container", "tag"} =>
            /\ calls[i].arg \notin {NoneRef, ""}
            /\ calls[i].arg \in
                   {args.image, args.runtime_image, args.app_image, args.prev_build}
                       \cup (IF Truthy(args.app_image)
                             THEN {args.app_image \o "-build"} ELSE {})

\* C24: when the validation of an image has pulled it, because it was not
\* in the local registry, and the image has arrived, the validation goes on
\* to a verdict about that image: a run in which no call failed does not end
\* in an exception.
C24_ValidatesPulledImage ==
    \A i \in CallsOf("pull") :
        (/\ calls[i].ok /\ calls[i].arg \in local
         /\ calls[i].arg \in {args.image, args.runtime_image, args.prev_build}
         /\ args.prog = "sti" => args.cmd = "validate"
         /\ \A j \in DOMAIN calls : calls[j].ok \/ calls[j].op = "copy")
            => /\ exc = "none"
               /\ Ended => \E q \in DOMAIN verdicts : verdicts[q].image = calls[i].arg

\* C26: at the end of an extended build with output tag T, T names an image
\* made by this run exactly when T-build does, and a run that ended in
\* failure has made neither.
C26_TagsUpdatedTogether ==
    (Ended /\ Extended) =>
        /\ args.app_image \in made <=> AppBuildTag(args.app_image) \in made
        /\ exc # "none" => made = {}

\* What a run can see of the runtime and of the file system: the images it
\* names, the containers it was given and the directory it made.
MainView ==
    << local \cap ({args.image, args.runtime_image} \cup OutputTags(args)),
       {c \in containers : c.id \in {loc.sa_id, loc.build_container_id}},
       {p \in fs : IsUnder(p, TempDir)} >>
PeerView ==
    << local \cap {"builder", peer.tag},
       {c \in containers : c.id = peer.container_id},
       {p \in fs : IsUnder(p, PeerDir)} >>
DifferentOutputTags == OutputTags(args) \cap {peer.tag} = {}

\* C25: in every step of two interleaved builds with different output tags
\* and without --dir, the run that takes the step removes only containers it
\* was given and paths of the directory it made, and leaves everything the
\* other run can see of the runtime and the file system as it was, so that
\* each run goes on as it would go alone.
C25_RunsDoNotInterfere ==
    [][DifferentOutputTags =>
          IF peer' # peer
          THEN /\ \A c \in containers \ containers' : c.id = peer.container_id
               /\ \A p \in fs \ fs' : IsUnder(p, PeerDir)
               /\ MainView' = MainView
          ELSE /\ \A c \in containers \ containers' :
                      c.id \in {loc.sa_id, loc.build_container_id}
               /\ \A p \in fs \ fs' : IsUnder(p, TempDir)
               /\ PeerView' = PeerView]_vars
C25_Witness ==
    /\ Ended /\ Extended /\ peer.pc = "exit" /\ DifferentOutputTags
    /\ loc.sa_id # NoId /\ peer.container_id > loc.sa_id
    /\ loc.build_container_id > peer.container_id
    /\ containers = {} /\ fs = {}
    /\ exit_code = <<0>> /\ args.app_image \in local /\ peer.tag \in local

============================================================================
